---------------------------- MODULE Spec2Model ----------------------------
(***************************************************************************)
(* A model of chokepoint: the shaping engine ChokeStream (src/src/stream.rs)*)
(* with its Unordered / Ordered queues and the BandwidthLimiter             *)
(* (src/src/bandwidth_limiter.rs), and the push adapter ChokeSink           *)
(* (src/src/sink.rs).                                                       *)
(*                                                                         *)
(* Instants and Durations are natural numbers of clock ticks.  Option<T>   *)
(* is a sequence of at most one value.  The random draws of                *)
(* a poll (rng.gen::<f64>() < p) and the values returned by the latency    *)
(* sampler are inputs of the poll action.                                  *)
(***************************************************************************)
EXTENDS Integers, Sequences, FiniteSets, TLC

(***************************************************************************)
(* Bounds of the model.                                                    *)
(***************************************************************************)
\* Number of items the producer sends.
MaxItems == 3
\* The clock stops at this instant.
MaxTime == 4
\* Largest Duration the latency sampler returns.
MaxDelay == 3
\* Most records the caller of a lone BandwidthLimiter lets it hold, and the
\* largest weight of a request.
MaxRequests == 2
MaxWeight == 2
\* Largest byte length of an item of a burst.
MaxLen == 2
\* Length of the limiter's window, in ticks.
Window == 2
\* The configured byte limit per window.
Limit == 2

\* Option<T>: None is the empty sequence and Some(x) the sequence <<x>>.
None == << >>

Some(x) == <<x>>

\* Option::unwrap
unwrap(o) == o[1]

Delays == 1..MaxDelay

\* A probability is 0.0, something strictly between 0 and 1, or 1.0.
Probabilities == {0, 50, 100}

\* The outcomes of `rng.gen::<f64>() < p`, gen() being uniform in [0, 1).
Bernoulli(p) == IF p <= 0 THEN {FALSE} ELSE IF p >= 100 THEN {TRUE} ELSE BOOLEAN

Orderings == {"Unordered", "Ordered", "Backpressure"}

(***************************************************************************)
(* Sequence helpers.                                                       *)
(***************************************************************************)
Front(s) == SubSeq(s, 1, Len(s) - 1)

Min(S) == CHOOSE x \in S : \A y \in S : x <= y

\* The elements of a finite set of numbers in ascending order
\* (the iteration order of a BTreeMap's keys).
RECURSIVE Ascending(_)
Ascending(S) == IF S = {} THEN << >> ELSE <<Min(S)>> \o Ascending(S \ {Min(S)})

Range(s) == {s[i] : i \in DOMAIN s}

(***************************************************************************)
(* Items.  An item carries its identity (the producer numbers the items    *)
(* 1, 2, ...), its byte length, whether corrupt() was applied and whether  *)
(* it is a copy made by duplicate().  `at` and `delay` record the intake   *)
(* of the item: the instant of the poll that took it from upstream and the *)
(* Option<Duration> the latency sampler gave; `at` is None until intake.   *)
(***************************************************************************)
NewItem(i, len) ==
    [id |-> i, len |-> len, corrupt |-> FALSE, dup |-> FALSE, at |-> None, delay |-> None]

\* An item as the consumer sees it: without the record of its intake.
Delivered(item) == [item EXCEPT !.at = None, !.delay = None]

\* ChokeItem::byte_len
byte_len(item) == item.len

\* ChokeItem::corrupt (Bytes: one byte is flipped, the length is kept)
corrupt(item) == [item EXCEPT !.corrupt = TRUE]

\* ChokeItem::duplicate for Bytes: Some(self.clone())
duplicate(item) == [item EXCEPT !.dup = TRUE]

\* The item types T of a ChokeStream<T>: Bytes implements duplicate, and
\* TestPayload keeps the default of the trait, which returns None.
ItemTypes == {"Bytes", "TestPayload"}

\* A duplicate that every item type supports.
ChokeItem_duplicate_always(T, item) == Some(duplicate(item))

ChokeItem_duplicate(T, item) == IF T = "Bytes" THEN Some(duplicate(item)) ELSE None

(***************************************************************************)
(* BandwidthLimiter (src/src/bandwidth_limiter.rs).                        *)
(* requests is a sequence of <<instant, weight>> records.                  *)
(***************************************************************************)
BandwidthLimiter_new(limit, window) ==
    [limit |-> limit, current_burden |-> 0, requests |-> << >>, window |-> window]

\* A subtraction that does not saturate.
unsaturated_sub(a, b) == a - b

\* usize::saturating_sub
saturating_sub(a, b) == IF a >= b THEN a - b ELSE 0

capacity_left(w) == saturating_sub(w.limit, w.current_burden)

\* A limit that counts as reached only once the burden is beyond it.
limit_exceeded(w) == w.current_burden > w.limit

limit_reached(w) == capacity_left(w) = 0

\* A take_while that also counts the records at the cutoff.
RECURSIVE take_while_count_inclusive(_, _)
take_while_count_inclusive(reqs, cutoff) ==
    IF reqs # << >> /\ Head(reqs)[1] <= cutoff
    THEN 1 + take_while_count_inclusive(Tail(reqs), cutoff)
    ELSE 0

\* The number of leading records older than the cutoff (take_while ... count).
RECURSIVE take_while_count(_, _)
take_while_count(reqs, cutoff) ==
    IF reqs # << >> /\ Head(reqs)[1] < cutoff
    THEN 1 + take_while_count(Tail(reqs), cutoff)
    ELSE 0

RECURSIVE SumWeights(_)
SumWeights(reqs) == IF reqs = << >> THEN 0 ELSE Head(reqs)[2] + SumWeights(Tail(reqs))

\* An update_at that forgets to evict the records that left the window.
update_at_keeping(w, now) == w

\* An update_at that evicts the records that left the window and keeps
\* their weights in the burden.
update_at_unsubtracted(w, now) ==
    LET cutoff == now - w.window
        n == take_while_count(w.requests, cutoff)
    IN [w EXCEPT !.requests = SubSeq(w.requests, n + 1, Len(w.requests))]

update_at(w, now) ==
    LET cutoff == now - w.window
        n == take_while_count(w.requests, cutoff)
    IN IF n = 0
       THEN w
       ELSE [w EXCEPT !.requests = SubSeq(w.requests, n + 1, Len(w.requests)),
                      !.current_burden = w.current_burden - SumWeights(SubSeq(w.requests, 1, n))]

\* An add_request_at that refuses a request once the limit is reached.
add_request_at_refusing(w, weight, now) ==
    IF limit_reached(w)
    THEN update_at(w, now)
    ELSE update_at([w EXCEPT !.requests = Append(w.requests, <<now, weight>>),
                             !.current_burden = w.current_burden + weight],
                   now)

add_request_at(w, weight, now) ==
    update_at([w EXCEPT !.requests = Append(w.requests, <<now, weight>>),
                        !.current_burden = w.current_burden + weight],
              now)

(***************************************************************************)
(* UnorderedQueue (src/src/stream.rs).  delay_queue is a BTreeMap from     *)
(* Instant to item: a function whose domain is the set of its keys.        *)
(***************************************************************************)
\* BTreeMap::insert: an entry with the same key is replaced.
BTreeMap_insert(m, key, item) ==
    [k \in (DOMAIN m) \cup {key} |-> IF k = key THEN item ELSE m[k]]

EmptyMap == [k \in {} |-> 0]

UnorderedQueue_pending(q) == q.queue # << >> \/ DOMAIN q.delay_queue # {}

UnorderedQueue_deadline(q) ==
    IF DOMAIN q.delay_queue = {} THEN None ELSE Some(Min(DOMAIN q.delay_queue))

\* split_off(&now) keeps the keys >= now in the delay queue; the entries before
\* them are appended to the ready queue in key order.
\* An expire that takes every delayed entry for expired.
UnorderedQueue_expire_all(q, now) ==
    LET expired == Ascending(DOMAIN q.delay_queue)
    IN [q EXCEPT !.delay_queue = EmptyMap,
                 !.queue = q.queue \o [i \in 1..Len(expired) |-> q.delay_queue[expired[i]]]]

UnorderedQueue_expire(q, now) ==
    LET still_delayed == {k \in DOMAIN q.delay_queue : k >= now}
        expired == Ascending((DOMAIN q.delay_queue) \ still_delayed)
    IN [q EXCEPT !.delay_queue = [k \in still_delayed |-> q.delay_queue[k]],
                 !.queue = q.queue \o [i \in 1..Len(expired) |-> q.delay_queue[expired[i]]]]

UnorderedQueue_pop_front(q) ==
    IF q.queue = << >>
    THEN [item |-> None, queue |-> q]
    ELSE [item |-> Some(Head(q.queue)), queue |-> [q EXCEPT !.queue = Tail(q.queue)]]

UnorderedQueue_push_front(q, item, delay, now) ==
    IF delay # None
    THEN [q EXCEPT !.delay_queue = BTreeMap_insert(q.delay_queue, now + unwrap(delay), item)]
    ELSE [q EXCEPT !.queue = <<item>> \o q.queue]

\* A push_back that puts every item at the back of the ready queue, delayed
\* or not.
UnorderedQueue_push_back_undelayed(q, item, delay, now) ==
    [q EXCEPT !.queue = Append(q.queue, item)]

UnorderedQueue_push_back(q, item, delay, now) ==
    IF delay # None
    THEN [q EXCEPT !.delay_queue = BTreeMap_insert(q.delay_queue, now + unwrap(delay), item)]
    ELSE [q EXCEPT !.queue = Append(q.queue, item)]

(***************************************************************************)
(* OrderedQueue (src/src/stream.rs).  queue holds <<Option<Instant>, item>>*)
(***************************************************************************)
OrderedQueue_pending(q) == q.queue # << >>

OrderedQueue_deadline(q) == IF q.queue = << >> THEN None ELSE Head(q.queue)[1]

\* A pop_front that looks past a delayed head for the first entry that is due.
RECURSIVE first_due(_, _, _)
first_due(entries, now, i) ==
    IF i > Len(entries) THEN 0
    ELSE IF entries[i][1] = None \/ unwrap(entries[i][1]) <= now THEN i
    ELSE first_due(entries, now, i + 1)

OrderedQueue_pop_front_skipping(q, now) ==
    LET i == first_due(q.queue, now, 1)
    IN IF i = 0
       THEN [item |-> None, queue |-> q]
       ELSE [item |-> Some(q.queue[i][2]),
             queue |-> [q EXCEPT !.queue = SubSeq(q.queue, 1, i - 1)
                                           \o SubSeq(q.queue, i + 1, Len(q.queue)),
                                 !.delayed = IF q.queue[i][1] # None
                                             THEN q.delayed - 1 ELSE q.delayed]]

OrderedQueue_pop_front(q, now) ==
    IF q.queue = << >>
    THEN [item |-> None, queue |-> q]
    ELSE IF Head(q.queue)[1] # None /\ unwrap(Head(q.queue)[1]) > now
    THEN [item |-> None, queue |-> q]
    ELSE IF Head(q.queue)[1] # None
    THEN [item |-> Some(Head(q.queue)[2]),
          queue |-> [q EXCEPT !.queue = Tail(q.queue), !.delayed = q.delayed - 1]]
    ELSE [item |-> Some(Head(q.queue)[2]), queue |-> [q EXCEPT !.queue = Tail(q.queue)]]

OrderedQueue_push(q, front, item, delay, now) ==
    LET entry == IF delay # None THEN <<Some(now + unwrap(delay)), item>> ELSE <<None, item>>
        counted == IF delay # None THEN [q EXCEPT !.delayed = q.delayed + 1] ELSE q
    IN IF front
       THEN [counted EXCEPT !.queue = <<entry>> \o counted.queue]
       ELSE [counted EXCEPT !.queue = Append(counted.queue, entry)]

(***************************************************************************)
(* enum Queue (src/src/stream.rs).                                         *)
(***************************************************************************)
queue_for_ordering(ordering) ==
    IF ordering = "Ordered"
    THEN [kind |-> "Ordered", queue |-> << >>, delayed |-> 0]
    ELSE [kind |-> "Unordered", queue |-> << >>, delay_queue |-> EmptyMap]

Queue_pending(q) ==
    IF q.kind = "Unordered" THEN UnorderedQueue_pending(q) ELSE OrderedQueue_pending(q)

Queue_deadline(q) ==
    IF q.kind = "Unordered" THEN UnorderedQueue_deadline(q) ELSE OrderedQueue_deadline(q)

Queue_expire(q, now) ==
    IF q.kind = "Unordered" THEN UnorderedQueue_expire(q, now) ELSE q

Queue_pop_front(q, now) ==
    IF q.kind = "Unordered" THEN UnorderedQueue_pop_front(q) ELSE OrderedQueue_pop_front(q, now)

\* A push_front that puts the item at the back of the queue.
Queue_push_front_at_back(q, item, delay, now) ==
    IF q.kind = "Unordered"
    THEN UnorderedQueue_push_back(q, item, delay, now)
    ELSE OrderedQueue_push(q, FALSE, item, delay, now)

Queue_push_front(q, item, delay, now) ==
    IF q.kind = "Unordered"
    THEN UnorderedQueue_push_front(q, item, delay, now)
    ELSE OrderedQueue_push(q, TRUE, item, delay, now)

Queue_push_back(q, item, delay, now) ==
    IF q.kind = "Unordered"
    THEN UnorderedQueue_push_back(q, item, delay, now)
    ELSE OrderedQueue_push(q, FALSE, item, delay, now)

\* Every item held by the queue, ready or delayed.
Queue_items(q) ==
    IF q.kind = "Unordered"
    THEN Range(q.queue) \cup {q.delay_queue[k] : k \in DOMAIN q.delay_queue}
    ELSE {e[2] : e \in Range(q.queue)}

(***************************************************************************)
(* Poll<T>.                                                                *)
(***************************************************************************)
Pending == [poll |-> "Pending", value |-> None]

Ready(v) == [poll |-> "Ready", value |-> v]

(***************************************************************************)
(* The upstream of the engine: the receiving half of an unbounded mpsc     *)
(* channel (UnboundedReceiverStream).  items are the messages sent and not *)
(* yet received; closed says that every sender has been dropped.           *)
(***************************************************************************)
Channel(items, closed) == [items |-> items, closed |-> closed]

poll_next_unpin(chan) ==
    IF chan.items # << >> THEN Ready(Some(Head(chan.items)))
    ELSE IF chan.closed THEN Ready(None)
    ELSE Pending

(***************************************************************************)
(* ChokeStream (src/src/stream.rs).                                        *)
(***************************************************************************)
\* BandwidthLimit { window, drop_ratio, only_drop_when_bandwidth_limit_reached }
BandwidthLimit(limit, window, drop_ratio, only_when_reached) ==
    [window |-> BandwidthLimiter_new(limit, window),
     drop_ratio |-> drop_ratio,
     only_drop_when_bandwidth_limit_reached |-> only_when_reached]

\* ChokeStream::new followed by apply_settings of the initial settings.
ChokeStream_new(ordering, latency_distribution, drop_probability, corrupt_probability, duplicate_probability, bandwidth_limit) ==
    [queue |-> queue_for_ordering(ordering),
     latency_distribution |-> latency_distribution,
     drop_probability |-> drop_probability,
     corrupt_probability |-> corrupt_probability,
     duplicate_probability |-> duplicate_probability,
     bandwidth_limit |-> bandwidth_limit,
     ordering |-> ordering,
     settings_rx |-> None,
     has_dropped_item |-> FALSE,
     total_packets |-> 0,
     dropped_packets |-> 0,
     T |-> "Bytes",
     sampler_calls |-> 0]

\* ChokeSettings: every field is an Option, None when the update leaves the
\* field alone (latency_distribution and bandwidth_limit are Options of
\* Options).
ChokeSettings_default ==
    [settings_rx |-> None, latency_distribution |-> None, drop_probability |-> None,
     corrupt_probability |-> None, duplicate_probability |-> None,
     bandwidth_limit |-> None, ordering |-> None]

\* An apply_settings that takes every field from the update, absent or not:
\* an absent probability becomes 0, an absent sampler or limit is removed, an
\* absent ordering rebuilds the queue for the default ordering.
apply_settings_replacing(cs, settings) ==
    LET ordering == IF settings.ordering # None THEN unwrap(settings.ordering) ELSE "Ordered"
    IN [cs EXCEPT
          !.settings_rx = settings.settings_rx,
          !.latency_distribution = IF settings.latency_distribution # None
                                   THEN unwrap(settings.latency_distribution) ELSE None,
          !.drop_probability = IF settings.drop_probability # None
                               THEN unwrap(settings.drop_probability) ELSE 0,
          !.corrupt_probability = IF settings.corrupt_probability # None
                                  THEN unwrap(settings.corrupt_probability) ELSE 0,
          !.duplicate_probability = IF settings.duplicate_probability # None
                                    THEN unwrap(settings.duplicate_probability) ELSE 0,
          !.ordering = ordering,
          !.queue = queue_for_ordering(ordering),
          !.bandwidth_limit = IF settings.bandwidth_limit # None
                              THEN unwrap(settings.bandwidth_limit) ELSE None]

\* An apply_settings that changes the ordering and keeps the queue.
apply_settings_keeping_queue(cs, settings) ==
    [cs EXCEPT
       !.settings_rx = IF settings.settings_rx # None THEN settings.settings_rx ELSE @,
       !.latency_distribution = IF settings.latency_distribution # None
                                THEN unwrap(settings.latency_distribution) ELSE @,
       !.drop_probability = IF settings.drop_probability # None
                            THEN unwrap(settings.drop_probability) ELSE @,
       !.corrupt_probability = IF settings.corrupt_probability # None
                               THEN unwrap(settings.corrupt_probability) ELSE @,
       !.duplicate_probability = IF settings.duplicate_probability # None
                                 THEN unwrap(settings.duplicate_probability) ELSE @,
       !.ordering = IF settings.ordering # None THEN unwrap(settings.ordering) ELSE @,
       !.bandwidth_limit = IF settings.bandwidth_limit # None
                           THEN unwrap(settings.bandwidth_limit) ELSE @]

\* ChokeStream::apply_settings
apply_settings(cs, settings) ==
    [cs EXCEPT
       !.settings_rx = IF settings.settings_rx # None THEN settings.settings_rx ELSE @,
       !.latency_distribution = IF settings.latency_distribution # None
                                THEN unwrap(settings.latency_distribution) ELSE @,
       !.drop_probability = IF settings.drop_probability # None
                            THEN unwrap(settings.drop_probability) ELSE @,
       !.corrupt_probability = IF settings.corrupt_probability # None
                               THEN unwrap(settings.corrupt_probability) ELSE @,
       !.duplicate_probability = IF settings.duplicate_probability # None
                                 THEN unwrap(settings.duplicate_probability) ELSE @,
       !.ordering = IF settings.ordering # None THEN unwrap(settings.ordering) ELSE @,
       !.queue = IF settings.ordering # None
                 THEN queue_for_ordering(unwrap(settings.ordering)) ELSE @,
       !.bandwidth_limit = IF settings.bandwidth_limit # None
                           THEN unwrap(settings.bandwidth_limit) ELSE @]

\* The receiving half of the settings channel (mpsc::channel(1)): the updates
\* sent and not yet received, and whether a sender is still alive.
SettingsChannel(updates, connected) == [updates |-> updates, connected |-> connected]

\* A head of poll_next that falls back to a loss probability of 0 and an
\* empty queue once the settings channel is disconnected and empty.
settings_absorb_resetting(cs) ==
    IF cs.settings_rx # None /\ unwrap(cs.settings_rx).updates # << >>
    THEN LET rx == unwrap(cs.settings_rx)
             received == [cs EXCEPT !.settings_rx = Some([rx EXCEPT !.updates = Tail(@)])]
         IN apply_settings(received, Head(rx.updates))
    ELSE IF cs.settings_rx # None /\ ~unwrap(cs.settings_rx).connected
    THEN [cs EXCEPT !.drop_probability = 0, !.queue = queue_for_ordering(cs.ordering)]
    ELSE cs

\* The head of poll_next: one try_recv on the settings channel, and
\* apply_settings of the update it returns.
settings_absorb(cs) ==
    IF cs.settings_rx # None /\ unwrap(cs.settings_rx).updates # << >>
    THEN LET rx == unwrap(cs.settings_rx)
             received == [cs EXCEPT !.settings_rx = Some([rx EXCEPT !.updates = Tail(@)])]
         IN apply_settings(received, Head(rx.updates))
    ELSE cs

\* ChokeStream::pending
pending(cs) == Queue_pending(cs.queue)

\* ChokeStream::backpressure
backpressure(cs) == cs.ordering = "Backpressure"

\* A bandwidth_drop that makes the drop-ratio draw whatever the flag and the
\* limiter say.
bandwidth_drop_ungated(cs) ==
    IF cs.bandwidth_limit = None
    THEN {FALSE}
    ELSE Bernoulli(unwrap(cs.bandwidth_limit).drop_ratio)

\* The bandwidth_drop closure of the intake loop: the outcomes it can have.
bandwidth_drop(cs) ==
    IF cs.bandwidth_limit = None
    THEN {FALSE}
    ELSE LET limit == unwrap(cs.bandwidth_limit)
         IN IF limit.only_drop_when_bandwidth_limit_reached /\ ~limit_reached(limit.window)
            THEN {FALSE}
            ELSE Bernoulli(limit.drop_ratio)

\* What the latency sampler can return when it is called.
latency_fn(cs) ==
    IF cs.latency_distribution = None THEN {None} ELSE {None} \cup {Some(d) : d \in Delays}

\* The random draws made for one packet taken from upstream.  A dropped packet
\* makes no further draw.
Draws(cs) ==
    LET dropped == [bandwidth_drop |-> FALSE, drop |-> TRUE, corrupt |-> FALSE,
                    delay |-> None, duplicate |-> FALSE]
    IN (IF TRUE \in bandwidth_drop(cs)
        THEN {[dropped EXCEPT !.bandwidth_drop = TRUE, !.drop = FALSE]} ELSE {})
       \cup
       (IF FALSE \in bandwidth_drop(cs) /\ TRUE \in Bernoulli(cs.drop_probability)
        THEN {dropped} ELSE {})
       \cup
       (IF FALSE \in bandwidth_drop(cs) /\ FALSE \in Bernoulli(cs.drop_probability)
        THEN {[bandwidth_drop |-> FALSE, drop |-> FALSE, corrupt |-> c, delay |-> d,
               duplicate |-> u] :
                 c \in Bernoulli(cs.corrupt_probability),
                 d \in latency_fn(cs),
                 u \in Bernoulli(cs.duplicate_probability)}
        ELSE {})

\* An intake that enqueues the copy ahead of its original.
intake_packet_copy_first(cs, packet, draw, now) ==
    IF draw.bandwidth_drop \/ draw.drop
    THEN [cs EXCEPT !.dropped_packets = cs.dropped_packets + 1,
                    !.has_dropped_item = TRUE]
    ELSE LET corrupted == IF draw.corrupt THEN corrupt(packet) ELSE packet
             delay == draw.delay
             dup == IF draw.duplicate THEN ChokeItem_duplicate(cs.T, corrupted) ELSE None
             sampled == IF cs.latency_distribution # None THEN 1 ELSE 0
             taken == [corrupted EXCEPT !.at = Some(now), !.delay = delay]
             q1 == IF dup # None
                   THEN Queue_push_back(cs.queue, [unwrap(dup) EXCEPT !.at = Some(now)], None, now)
                   ELSE cs.queue
             q2 == Queue_push_back(q1, taken, delay, now)
         IN [cs EXCEPT !.queue = q2, !.sampler_calls = cs.sampler_calls + sampled]

\* An intake that enqueues the packet before it looks at the drop decision.
intake_packet_drop_late(cs, packet, draw, now) ==
    LET q1 == Queue_push_back(cs.queue, [packet EXCEPT !.at = Some(now)], None, now)
    IN IF draw.bandwidth_drop \/ draw.drop
       THEN [cs EXCEPT !.queue = q1,
                       !.dropped_packets = cs.dropped_packets + 1,
                       !.has_dropped_item = TRUE]
       ELSE [cs EXCEPT !.queue = q1]

\* The body of the intake loop for one packet (Poll::Ready(Some(packet))).
intake_packet(cs, packet, draw, now) ==
    IF draw.bandwidth_drop \/ draw.drop
    THEN [cs EXCEPT !.dropped_packets = cs.dropped_packets + 1,
                    !.has_dropped_item = TRUE]
    ELSE LET corrupted == IF draw.corrupt THEN corrupt(packet) ELSE packet
             delay == draw.delay
             dup == IF draw.duplicate THEN ChokeItem_duplicate(cs.T, corrupted) ELSE None
             sampled == IF cs.latency_distribution # None THEN 1 ELSE 0
             taken == [corrupted EXCEPT !.at = Some(now), !.delay = delay]
             q1 == Queue_push_back(cs.queue, taken, delay, now)
             q2 == IF dup # None
                   THEN Queue_push_back(q1, [unwrap(dup) EXCEPT !.at = Some(now)], None, now)
                   ELSE q1
         IN [cs EXCEPT !.queue = q2, !.sampler_calls = cs.sampler_calls + sampled]

\* The intake loop while upstream returns Ready(Some(packet)).
RECURSIVE intake_loop(_, _, _, _)
intake_loop(cs, packets, draws, now) ==
    IF packets = << >>
    THEN cs
    ELSE intake_loop(intake_packet(cs, Head(packets), Head(draws), now),
                     Tail(packets), Tail(draws), now)

\* The guard of the intake phase.
intake_runs(cs) == ~backpressure(cs) \/ ~pending(cs)

\* The bandwidth check of the emit phase: the limiter after it, and whether
\* the limit holds the packet back.
emit_limit(cs, packet, now) ==
    IF cs.bandwidth_limit = None
    THEN [limit |-> FALSE, bandwidth_limit |-> None]
    ELSE LET l == unwrap(cs.bandwidth_limit)
             w == update_at(l.window, now)
         IN IF ~limit_reached(w)
            THEN [limit |-> FALSE,
                  bandwidth_limit |-> Some([l EXCEPT !.window = add_request_at(w, byte_len(packet), now)])]
            ELSE [limit |-> TRUE, bandwidth_limit |-> Some([l EXCEPT !.window = w])]

\* The end of poll_next, after the emit phase released nothing: NotReady while
\* the queue is pending, and otherwise whatever upstream returns now.  `late`
\* is what the producer did since the intake loop saw upstream Pending.
poll_tail(cs, chan, late) ==
    IF pending(cs)
    THEN [cs |-> cs, stream |-> chan, ret |-> Pending, raced |-> FALSE]
    ELSE IF late.kind = "item" /\ ~chan.closed
    THEN [cs |-> cs, stream |-> chan, ret |-> Ready(Some(late.item)), raced |-> TRUE]
    ELSE IF late.kind = "close" /\ ~chan.closed
    THEN [cs |-> cs, stream |-> [chan EXCEPT !.closed = TRUE], ret |-> Ready(None),
          raced |-> TRUE]
    ELSE [cs |-> cs, stream |-> chan, ret |-> poll_next_unpin(chan), raced |-> FALSE]

\* An emit phase that returns the popped item and leaves it at the front of
\* the queue.
poll_emit_keeping(cs, chan, now, late) ==
    LET expired == [cs EXCEPT !.queue = Queue_expire(cs.queue, now)]
        popped == Queue_pop_front(expired.queue, now)
    IN IF popped.item = None
       THEN poll_tail(expired, chan, late)
       ELSE LET packet == unwrap(popped.item)
                lim == emit_limit(expired, packet, now)
            IN IF lim.limit
               THEN poll_tail([expired EXCEPT
                                  !.queue = Queue_push_front(popped.queue, packet, None, now),
                                  !.bandwidth_limit = lim.bandwidth_limit],
                              chan, late)
               ELSE [cs |-> [expired EXCEPT
                                !.queue = Queue_push_front(popped.queue, packet, None, now),
                                !.bandwidth_limit = lim.bandwidth_limit,
                                !.total_packets = expired.total_packets + 1],
                     stream |-> chan, ret |-> Ready(Some(packet)), raced |-> FALSE]

\* The expire and emit phases.
poll_emit(cs, chan, now, late) ==
    LET expired == [cs EXCEPT !.queue = Queue_expire(cs.queue, now)]
        popped == Queue_pop_front(expired.queue, now)
    IN IF popped.item = None
       THEN poll_tail(expired, chan, late)
       ELSE LET packet == unwrap(popped.item)
                lim == emit_limit(expired, packet, now)
            IN IF lim.limit
               THEN poll_tail([expired EXCEPT
                                  !.queue = Queue_push_front(popped.queue, packet, None, now),
                                  !.bandwidth_limit = lim.bandwidth_limit],
                              chan, late)
               ELSE [cs |-> [expired EXCEPT !.queue = popped.queue,
                                            !.bandwidth_limit = lim.bandwidth_limit,
                                            !.total_packets = expired.total_packets + 1],
                     stream |-> chan, ret |-> Ready(Some(packet)), raced |-> FALSE]

\* ChokeStream::poll_next.  draws are the random draws of the intake loop, one
\* for each packet upstream holds, made under the settings in force after the
\* settings channel was polled.  The result is the engine and the upstream
\* after the poll and the value returned.
\* A poll_next that reports the end of the stream as soon as upstream has
\* ended, whether or not items are still queued.
poll_next_eager_end(cs, chan, now, draws, late) ==
    LET absorbed == settings_absorb(cs)
    IN IF intake_runs(absorbed)
       THEN LET taken == intake_loop(absorbed, chan.items, draws, now)
                drained == [chan EXCEPT !.items = << >>]
            IN IF chan.closed
               THEN [cs |-> taken, stream |-> drained, ret |-> Ready(None), raced |-> FALSE]
               ELSE poll_emit(taken, drained, now, late)
       ELSE poll_emit(absorbed, chan, now, late)

\* A poll_next that polls the settings channel after the intake loop.
poll_next_absorb_late(cs, chan, now, draws, late) ==
    IF intake_runs(cs)
    THEN LET taken == settings_absorb(intake_loop(cs, chan.items, draws, now))
             drained == [chan EXCEPT !.items = << >>]
         IN IF chan.closed /\ ~pending(taken)
            THEN [cs |-> taken, stream |-> drained, ret |-> Ready(None), raced |-> FALSE]
            ELSE poll_emit(taken, drained, now, late)
    ELSE poll_emit(settings_absorb(cs), chan, now, late)

poll_next(cs, chan, now, draws, late) ==
    LET absorbed == settings_absorb(cs)
    IN IF intake_runs(absorbed)
       THEN LET taken == intake_loop(absorbed, chan.items, draws, now)
                drained == [chan EXCEPT !.items = << >>]
            IN IF chan.closed /\ ~pending(taken)
               THEN [cs |-> taken, stream |-> drained, ret |-> Ready(None), raced |-> FALSE]
               ELSE poll_emit(taken, drained, now, late)
       ELSE poll_emit(absorbed, chan, now, late)

(***************************************************************************)
(* The state.                                                              *)
(*   choke_stream  the ChokeStream                                         *)
(*   stream        its upstream: the channel the producer sends into       *)
(*   now           the clock (Instant::now())                              *)
(*   next_id       the number of the next item the producer sends          *)
(*   polled        what the last ChokeStream::poll_next returned to the    *)
(*                 consumer of the stream                                  *)
(*   output        the items poll_next has returned to the consumer        *)
(*   sink          the downstream sink of a ChokeSink                      *)
(*   pending_send  ChokeSink::pending_send                                 *)
(*   closing       ChokeSink::closing                                      *)
(*   called        the last Sink method called on the ChokeSink and what   *)
(*                 it returned                                             *)
(*   limiter       a BandwidthLimiter used on its own                      *)
(***************************************************************************)
VARIABLES choke_stream, stream, now, next_id, polled, output,
          sink, pending_send, closing, called, limiter

vars == <<choke_stream, stream, now, next_id, polled, output,
          sink, pending_send, closing, called, limiter>>

sink_vars == <<sink, pending_send, closing, called>>

\* Byte lengths of the items the producer sends.
ItemLens == {1}

\* The latency sampler of the settings, when one is set.
Sampler == Some("latency_fn")

\* The settings an engine is constructed with: for every ordering, the
\* default settings, and a latency sampler alone, with a drop probability, with
\* a duplicate probability and with a bandwidth limit.
InitialSettings ==
    {ChokeStream_new(o, None, 0, 0, 0, None) : o \in Orderings}
    \cup {ChokeStream_new(o, Sampler, d, 0, 0, None) : o \in Orderings, d \in {0, 50}}
    \cup {ChokeStream_new(o, Sampler, 0, 0, 100, None) : o \in Orderings}
    \cup {ChokeStream_new(o, Sampler, 0, 0, 0, Some(BandwidthLimit(Limit, Window, 0, FALSE))) :
            o \in Orderings}

\* No Sink method has been called yet.  downstream lists the methods of the
\* downstream sink a call invoked, each with what it returned.
NoCall == [op |-> "none", ret |-> "none", downstream |-> << >>]

InitSink ==
    /\ sink = [received |-> << >>, closed |-> FALSE]
    /\ pending_send = None
    /\ closing = FALSE
    /\ called = NoCall

\* The BandwidthLimiter outside an engine.
InitLimiter == limiter = BandwidthLimiter_new(Limit, Window)

Init ==
    /\ choke_stream \in InitialSettings
    /\ stream = Channel(<< >>, FALSE)
    /\ now = 0
    /\ next_id = 1
    /\ polled = [poll |-> "none", value |-> None]
    /\ output = << >>
    /\ InitSink
    /\ InitLimiter

\* The producer sends an item into the upstream channel (tx.send(item)).
Send ==
    /\ ~stream.closed
    /\ next_id <= MaxItems
    /\ \E len \in ItemLens :
          stream' = [stream EXCEPT !.items = Append(stream.items, NewItem(next_id, len))]
    /\ next_id' = next_id + 1
    /\ UNCHANGED <<choke_stream, now, polled, output, sink_vars, limiter>>

\* The producer drops its sender (drop(tx)): upstream ends.
DropTx ==
    /\ ~stream.closed
    /\ stream' = [stream EXCEPT !.closed = TRUE]
    /\ UNCHANGED <<choke_stream, now, next_id, polled, output, sink_vars, limiter>>

\* Time passes.
Tick ==
    /\ now < MaxTime
    /\ now' = now + 1
    /\ UNCHANGED <<choke_stream, stream, next_id, polled, output, sink_vars, limiter>>

\* What the producer can do between the intake loop and the last upstream
\* poll of the same poll_next.
LateEvents ==
    {[kind |-> "none", item |-> None], [kind |-> "close", item |-> None]}
    \cup (IF next_id <= MaxItems
          THEN {[kind |-> "item", item |-> NewItem(next_id, len)] : len \in ItemLens}
          ELSE {})

\* The consumer polls the stream (ChokeStream::poll_next).
PollNext ==
    /\ \E draws \in [1..Len(stream.items) -> Draws(settings_absorb(choke_stream))], late \in LateEvents :
         LET r == poll_next(choke_stream, stream, now, draws, late)
         IN /\ late.kind # "none" => r.raced
            /\ choke_stream' = r.cs
            /\ stream' = r.stream
            /\ polled' = r.ret
            /\ output' = IF r.ret.poll = "Ready" /\ r.ret.value # None
                         THEN Append(output, Delivered(unwrap(r.ret.value)))
                         ELSE output
            /\ next_id' = IF r.raced /\ late.kind = "item" THEN next_id + 1 ELSE next_id
    /\ UNCHANGED <<now, sink_vars, limiter>>

Next == Send \/ DropTx \/ Tick \/ PollNext

Spec == Init /\ [][Next]_vars

(***************************************************************************)
(* ChokeSink (src/src/sink.rs).  The downstream sink is any Sink<T>: what  *)
(* its methods return is an input of the action that calls them.  Its      *)
(* state is the items it was handed (received) and whether its poll_close  *)
(* has completed (closed).  In a ChokeSink the upstream of the engine is   *)
(* the channel start_send sends into; the ChokeSink owns the sender, so    *)
(* that channel never ends.                                                *)
(***************************************************************************)
\* Poll<Result<(), E>> of the downstream's poll_ready, poll_flush, poll_close.
PollResults == {"Ready(Ok)", "Pending", "Ready(Err)"}

\* Result<(), E> of the downstream's start_send.
SendResults == {"Ok", "Err"}

\* Nothing races with the engine's poll inside a ChokeSink: start_send and
\* poll_flush are called on the same &mut ChokeSink.
NoLate == [kind |-> "none", item |-> None]

\* ChokeStream::pending_immediate: what it can return.
pending_immediate(cs) == IF pending(cs) THEN BOOLEAN ELSE {FALSE}

\* What a call of ChokeSink leaves behind: the adapter's state after the call,
\* what the call returned, and the downstream methods it invoked with what
\* each returned.
SinkResult(cs, chan, down, psend, ret, downstream) ==
    [cs |-> cs, stream |-> chan, sink |-> down, pending_send |-> psend,
     ret |-> ret, downstream |-> downstream]

\* A hand-off that answers an error of the downstream's start_send with
\* Pending, to be polled again, and otherwise as hand_off does.
hand_off_retrying(r, down, is_closing) ==
    LET item == unwrap(r.ret.value)
        handed == [down EXCEPT !.received = Append(down.received, Delivered(item))]
    IN {SinkResult(r.cs, r.stream, down, None, rdy, <<<<"poll_ready", rdy>>>>) :
            rdy \in PollResults \ {"Ready(Ok)"}}
       \cup
       {SinkResult(r.cs, r.stream, down, None, "Pending",
                   <<<<"poll_ready", "Ready(Ok)">>, <<"start_send", "Err">>>>)}
       \cup
       (IF is_closing /\ pending(r.cs)
        THEN {SinkResult(r.cs, r.stream, handed, None, "Pending",
                         <<<<"poll_ready", "Ready(Ok)">>, <<"start_send", "Ok">>>>)}
        ELSE {SinkResult(r.cs, r.stream, handed, None, fl,
                         <<<<"poll_ready", "Ready(Ok)">>, <<"start_send", "Ok">>,
                           <<"poll_flush", fl>>>>) : fl \in PollResults})

\* The Ready(Some(item)) arm of poll_flush: the hand-off to the downstream.
hand_off(r, down, is_closing) ==
    LET item == unwrap(r.ret.value)
        handed == [down EXCEPT !.received = Append(down.received, Delivered(item))]
    IN {SinkResult(r.cs, r.stream, down, None, rdy, <<<<"poll_ready", rdy>>>>) :
            rdy \in PollResults \ {"Ready(Ok)"}}
       \cup
       {SinkResult(r.cs, r.stream, down, None, "Ready(Err)",
                   <<<<"poll_ready", "Ready(Ok)">>, <<"start_send", "Err">>>>)}
       \cup
       (IF is_closing /\ pending(r.cs)
        THEN {SinkResult(r.cs, r.stream, handed, None, "Pending",
                         <<<<"poll_ready", "Ready(Ok)">>, <<"start_send", "Ok">>>>)}
        ELSE {SinkResult(r.cs, r.stream, handed, None, fl,
                         <<<<"poll_ready", "Ready(Ok)">>, <<"start_send", "Ok">>,
                           <<"poll_flush", fl>>>>) : fl \in PollResults})

\* self.sink.poll_flush_unpin(cx) as the value of poll_flush.
flush_downstream(r, down) ==
    {SinkResult(r.cs, r.stream, down, None, fl, <<<<"poll_flush", fl>>>>) : fl \in PollResults}

\* ChokeSink::poll_flush, with the value of self.closing it runs under and the
\* random draws of the engine's poll: the results it can have.
poll_flush(cs, chan, down, psend, is_closing, now_, draws) ==
    LET r == poll_next(cs, chan, now_, draws, NoLate)
        polls ==
            IF r.ret.poll = "Ready" /\ r.ret.value # None
            THEN hand_off(r, down, is_closing)
            ELSE IF r.ret.poll = "Ready"
            THEN flush_downstream(r, down)
            ELSE (IF (is_closing /\ pending(r.cs)) \/ TRUE \in pending_immediate(r.cs)
                  THEN {SinkResult(r.cs, r.stream, down, None, "Pending", << >>)} ELSE {})
                 \cup
                 (IF ~(is_closing /\ pending(r.cs)) /\ FALSE \in pending_immediate(r.cs)
                  THEN flush_downstream(r, down) ELSE {})
    IN IF psend # None
       THEN {SinkResult(cs, chan, down, None, "Ready(Err)", << >>),
             SinkResult(cs, chan, down, psend, "Pending", << >>)} \cup polls
       ELSE polls

\* The caller has got an error or has closed the sink: it calls nothing more.
Finished ==
    \/ called.ret = "Ready(Err)"
    \/ called.ret = "Err"
    \/ called.op = "poll_close" /\ called.ret = "Ready(Ok)"

\* ChokeSink::poll_ready
PollReady ==
    /\ ~Finished
    /\ ~closing
    /\ \E rdy \in PollResults :
          called' = [op |-> "poll_ready", ret |-> rdy, downstream |-> <<<<"poll_ready", rdy>>>>]
    /\ UNCHANGED <<choke_stream, stream, now, next_id, polled, output, sink, pending_send,
                   closing, limiter>>

\* ChokeSink::start_send, called after poll_ready has returned Ready(Ok).
StartSend ==
    /\ called.op = "poll_ready" /\ called.ret = "Ready(Ok)"
    /\ next_id <= MaxItems
    /\ \E len \in ItemLens :
          stream' = [stream EXCEPT !.items = Append(stream.items, NewItem(next_id, len))]
    /\ next_id' = next_id + 1
    /\ called' = [op |-> "start_send", ret |-> "Ok", downstream |-> << >>]
    /\ UNCHANGED <<choke_stream, now, polled, output, sink, pending_send, closing, limiter>>

\* The state after a poll_flush or a poll_close that flushed.
Flushed(op, r) ==
    /\ choke_stream' = r.cs
    /\ stream' = r.stream
    /\ sink' = r.sink
    /\ pending_send' = r.pending_send
    /\ called' = [op |-> op, ret |-> r.ret, downstream |-> r.downstream]

\* ChokeSink::poll_flush
PollFlush ==
    /\ ~Finished
    /\ ~closing
    /\ \E draws \in [1..Len(stream.items) -> Draws(settings_absorb(choke_stream))] :
         \E r \in poll_flush(choke_stream, stream, sink, pending_send, closing, now, draws) :
            Flushed("poll_flush", r)
    /\ UNCHANGED <<now, next_id, polled, output, closing, limiter>>

\* self.sink.poll_close_unpin(cx) as the value of poll_close.
close_downstream(cs, chan, down, psend) ==
    {SinkResult(cs, chan, [down EXCEPT !.closed = (cl = "Ready(Ok)")], psend, cl,
                <<<<"poll_close", cl>>>>) : cl \in PollResults}

\* ChokeSink::poll_close: the results it can have.
\* A poll_close that closes the downstream without looking at the engine.
poll_close_unguarded(cs, chan, down, psend, now_, draws) ==
    close_downstream(cs, chan, down, psend)

poll_close(cs, chan, down, psend, now_, draws) ==
    IF psend # None \/ pending(cs)
    THEN poll_flush(cs, chan, down, psend, TRUE, now_, draws)
    ELSE close_downstream(cs, chan, down, psend)

PollClose ==
    /\ ~Finished
    /\ closing' = TRUE
    /\ \E draws \in [1..Len(stream.items) -> Draws(settings_absorb(choke_stream))] :
         \E r \in poll_close(choke_stream, stream, sink, pending_send, now, draws) :
            Flushed("poll_close", r)
    /\ UNCHANGED <<now, next_id, polled, output, limiter>>

\* The settings a ChokeSink is constructed with.
SinkSettings ==
    {ChokeStream_new(o, None, 0, 0, 0, None) : o \in Orderings}
    \cup {ChokeStream_new(o, Sampler, 0, 0, 0, None) : o \in Orderings}
    \cup {ChokeStream_new("Ordered", Sampler, 50, 0, 0, None)}

SinkInit ==
    /\ choke_stream \in SinkSettings
    /\ stream = Channel(<< >>, FALSE)
    /\ now = 0
    /\ next_id = 1
    /\ polled = [poll |-> "none", value |-> None]
    /\ output = << >>
    /\ InitSink
    /\ InitLimiter

SinkNext == PollReady \/ StartSend \/ PollFlush \/ PollClose \/ Tick

SinkSpec == SinkInit /\ [][SinkNext]_vars

(***************************************************************************)
(* Properties.                                                             *)
(***************************************************************************)
Ids(items) == [i \in DOMAIN items |-> items[i].id]

\* The engine neither drops, corrupts, duplicates, delays nor throttles.
IdentitySettings(cs) ==
    /\ cs.drop_probability = 0
    /\ cs.corrupt_probability = 0
    /\ cs.duplicate_probability = 0
    /\ cs.latency_distribution = None
    /\ cs.bandwidth_limit = None

\* The items handed to the consumer of a ChokeStream with identity settings
\* are the items sent, in the order sent, and all of them once the stream ended.
PullIdentity ==
    IdentitySettings(choke_stream) =>
        /\ \A i \in DOMAIN output :
              /\ output[i].id = i
              /\ ~output[i].corrupt /\ ~output[i].dup
        /\ Len(output) <= next_id - 1
        /\ polled = Ready(None) => Len(output) = next_id - 1

\* After a successful close of a ChokeSink with identity settings the
\* downstream has received the items sent, in the order sent.
SinkIdentity ==
    (IdentitySettings(choke_stream) /\ called.op = "poll_close" /\ called.ret = "Ready(Ok)") =>
        /\ Len(sink.received) = next_id - 1
        /\ \A i \in DOMAIN sink.received :
              /\ sink.received[i].id = i
              /\ ~sink.received[i].corrupt /\ ~sink.received[i].dup

\* C1: with drop = corrupt = duplicate probability 0, no latency sampler and no
\* bandwidth limit the output is exactly the input, in input order, each item
\* once, followed by end-of-input: for the pull engine (ChokeStream) and for
\* the push adapter (ChokeSink after close).
C1_Identity == PullIdentity /\ SinkIdentity

\* One item of the output comes before another: in upstream order, an original
\* before its duplicate.
InOrder(a, b) == a.id < b.id \/ (a.id = b.id /\ ~a.dup /\ b.dup)

\* The head of the Ordered queue is delayed beyond now.
HeadHeld ==
    /\ choke_stream.queue.kind = "Ordered"
    /\ choke_stream.queue.queue # << >>
    /\ Head(choke_stream.queue.queue)[1] # None
    /\ unwrap(Head(choke_stream.queue.queue)[1]) > now

\* C2: under Ordered ordering the surviving items are emitted in the order they
\* were taken from upstream, whatever delays were sampled, and nothing is
\* emitted while the deadline of the head of the queue is in the future.
C2_OrderedKeepsOrder ==
    /\ [](choke_stream.ordering = "Ordered" =>
            \A i, j \in DOMAIN output : i < j => InOrder(output[i], output[j]))
    /\ [][HeadHeld => output' = output]_vars

\* An entry admitted together with the held head of the Ordered queue is
\* already due while the consumer is still told to wait.
C2_Witness ==
    /\ HeadHeld
    /\ polled = Pending
    /\ \E i \in 2..Len(choke_stream.queue.queue) :
          /\ choke_stream.queue.queue[i][1] # None
          /\ unwrap(choke_stream.queue.queue[i][1]) <= now
          /\ choke_stream.queue.queue[i][2].at = Head(choke_stream.queue.queue)[2].at

\* The deadline of an item that received a sampled delay.
Deadline(item) == unwrap(item.at) + unwrap(item.delay)

\* The item handed out by the step, when the step hands one out.
Emits == output' # output

Emitted == unwrap(polled'.value)

\* C3: under Unordered ordering the items that received a sampled delay are
\* emitted in ascending order of deadline (arrival time + delay): an item is
\* never emitted while a delayed item with an earlier deadline is still
\* queued, and no item is emitted before its deadline. Items admitted together
\* with delays 3, 1, 2 therefore leave in the order second, third, first.
C3_UnorderedByDeadline ==
    [][(choke_stream.ordering = "Unordered" /\ Emits /\ Emitted.delay # None) =>
         /\ Deadline(Emitted) <= now
         /\ \A other \in Queue_items(choke_stream'.queue) :
               other.delay # None => Deadline(Emitted) <= Deadline(other)]_vars

\* Three items admitted together at time 0 with delays 3, 1, 2 have left in
\* the order 2, 3, 1.
C3_Witness ==
    /\ choke_stream.ordering = "Unordered"
    /\ Ids(output) = <<2, 3, 1>>
    /\ polled = Ready(Some([NewItem(1, 1) EXCEPT !.at = Some(0), !.delay = Some(3)]))
    /\ now = 4

\* The items admitted from upstream and not yet emitted or dropped.
InShaper == {item \in Queue_items(choke_stream.queue) : ~item.dup}

\* C4: under Backpressure ordering no new item is admitted from upstream while
\* an item is pending in the shaper: at most one admitted item is in the
\* shaper at any time.
C4_BackpressureOneInFlight ==
    backpressure(choke_stream) => Cardinality(InShaper) <= 1

\* C9: the engine returns Ready(None) only when upstream has ended and the
\* queue is empty, and no item is emitted after Ready(None).
C9_EndOfInput ==
    /\ [](polled = Ready(None) =>
            /\ stream.closed /\ stream.items = << >>
            /\ ~pending(choke_stream))
    /\ [][polled = Ready(None) => (output' = output /\ polled' = Ready(None))]_vars

\* The engine has ended after it emitted delayed items, and was polled again.
C9_Witness ==
    /\ polled = Ready(None)
    /\ choke_stream.latency_distribution # None
    /\ Len(output) = 3
    /\ now > 1

\* The call returned the poll result of the downstream's poll_ready.
DefersToDownstream ==
    /\ Len(called.downstream) = 1
    /\ called.downstream[1] = <<"poll_ready", called.ret>>

\* C5: poll_ready of the ChokeSink returns Pending while the ordering is
\* Backpressure and the engine reports pending items, and in every other case
\* returns what the downstream's poll_ready returns.
C5_AcceptReadyGated ==
    called.op = "poll_ready" =>
        IF backpressure(choke_stream) /\ pending(choke_stream)
        THEN called.ret = "Pending"
        ELSE DefersToDownstream

\* The engine cannot drop an item on purpose.
NoDrop(cs) ==
    /\ cs.drop_probability = 0
    /\ cs.bandwidth_limit = None \/ unwrap(cs.bandwidth_limit).drop_ratio = 0

\* How often the item sent as number i was handed to the downstream.
Handed(i) == Cardinality({k \in DOMAIN sink.received :
                             sink.received[k].id = i /\ ~sink.received[k].dup})

CloseCompleted == called.op = "poll_close" /\ called.ret = "Ready(Ok)"

\* C6: with drop probability 0 and no bandwidth drop, once poll_close of the
\* ChokeSink has returned Ready(Ok) every item accepted by start_send has been
\* handed to the downstream exactly once.
C6_NoSilentLoss ==
    (NoDrop(choke_stream) /\ CloseCompleted) =>
        \A i \in 1..(next_id - 1) : Handed(i) = 1

\* C7: whenever poll_close of the ChokeSink returns Ready(Ok) nothing is
\* pending in the engine and the downstream's poll_close has been invoked and
\* has completed.
C7_CloseClosesDownstream ==
    CloseCompleted => (~pending(choke_stream) /\ sink.closed)

\* The call invoked the downstream's poll_close.
ClosedDownstream ==
    \E k \in DOMAIN called.downstream : called.downstream[k][1] = "poll_close"

\* C8: the downstream's poll_close is never invoked while the engine reports
\* pending items or while a hand-off to the downstream is in flight.
C8_NoEarlyDownstreamClose ==
    ClosedDownstream => (~pending(choke_stream) /\ pending_send = None)

\* The downstream was closed by a poll_close after the engine had delayed
\* two items and released them in the order of their deadlines.
C8_Witness ==
    /\ ClosedDownstream
    /\ sink.closed
    /\ closing
    /\ Ids(sink.received) = <<2, 1>>

(***************************************************************************)
(* Liveness.  The consumer keeps polling (the engine arms its timer and     *)
(* wakes the task whenever it returns Pending with items queued) and the    *)
(* clock keeps advancing up to MaxTime.                                     *)
(***************************************************************************)
LiveSettings ==
    {ChokeStream_new(o, Sampler, 0, 0, 0, None) : o \in Orderings}
    \cup {ChokeStream_new(o, Sampler, 0, 0, 0, Some(BandwidthLimit(Limit, Window, 0, FALSE))) :
            o \in Orderings}

LiveInit ==
    /\ choke_stream \in LiveSettings
    /\ stream = Channel(<< >>, FALSE)
    /\ now = 0
    /\ next_id = 1
    /\ polled = [poll |-> "none", value |-> None]
    /\ output = << >>
    /\ InitSink
    /\ InitLimiter

\* ENABLED <<PollNext>>_vars written out: some poll changes the state.
PollNextEnabled ==
    \E draws \in [1..Len(stream.items) -> Draws(settings_absorb(choke_stream))], late \in LateEvents :
        \E r \in {poll_next(choke_stream, stream, now, draws, late)} :
            /\ late.kind # "none" => r.raced
            /\ \/ <<r.cs, r.stream, r.ret>> # <<choke_stream, stream, polled>>
               \/ r.ret.poll = "Ready" /\ r.ret.value # None

\* WF_vars(PollNext), with its ENABLED written out.
Polling == []<>(~PollNextEnabled) \/ []<><<PollNext>>_vars

LiveSpec == LiveInit /\ [][Next]_vars /\ WF_vars(Tick) /\ Polling

\* Upstream has ended and the engine has taken everything that was sent.
EndSeen == stream.closed /\ stream.items = << >>

RECURSIVE SumLens(_)
SumLens(S) == IF S = {} THEN 0
              ELSE LET x == CHOOSE y \in S : TRUE IN byte_len(x) + SumLens(S \ {x})

\* The weight the records of the limiter still have at the last instant of
\* the clock.
LateBurden(w) ==
    SumWeights(SelectSeq(w.requests, LAMBDA r : r[1] >= MaxTime - w.window))

\* The clock has room for what is queued: every deadline passes before the
\* clock stops, and the limiter admits every queued item by then even when
\* all of them are released at the last instant.
EnoughClock ==
    LET queued == Queue_items(choke_stream.queue)
    IN /\ \A item \in queued : item.delay # None => Deadline(item) < MaxTime
       /\ \/ choke_stream.bandwidth_limit = None
          \/ queued = {}
          \/ \E last \in queued :
                LateBurden(unwrap(choke_stream.bandwidth_limit).window)
                    + SumLens(queued \ {last})
                  < unwrap(choke_stream.bandwidth_limit).window.limit

InOutput(item) == \E k \in DOMAIN output : output[k] = Delivered(item)

\* C10: once upstream has ended, under repeated polling with advancing time
\* (and a clock with room for what is queued) the engine returns Ready(None)
\* and does not stay Pending forever; by then nothing is queued, and an item
\* leaves the queue only by being emitted: every item still queued is emitted
\* first.  For every ordering, with and without a bandwidth limit.
C10_DrainsAndEnds ==
    /\ (EndSeen /\ EnoughClock) ~> (polled = Ready(None))
    /\ [](polled = Ready(None) => ~pending(choke_stream))
    /\ [][EndSeen => \A item \in Queue_items(choke_stream.queue) :
                        item \in Queue_items(choke_stream'.queue) \/ InOutput(item)']_vars

\* Upstream has ended while the limiter holds back a queued item, and the
\* clock has room for it.
C10_Witness ==
    /\ EndSeen /\ EnoughClock
    /\ pending(choke_stream)
    /\ choke_stream.bandwidth_limit # None
    /\ limit_reached(unwrap(choke_stream.bandwidth_limit).window)
    /\ polled = Pending

(***************************************************************************)
(* Intake: latency, loss, duplication, sampling.                           *)
(***************************************************************************)
\* No item that received a sampled delay is emitted at a poll earlier than
\* its intake instant plus the delay.
LatencyLowerBound ==
    [][(Emits /\ Emitted.delay # None) => Deadline(Emitted) <= now]_vars

\* No item is emitted twice.
EmittedAtMostOnce ==
    \A i, j \in DOMAIN output :
        (output[i].id = output[j].id /\ output[i].dup = output[j].dup) => i = j

\* When the stream has ended and nothing was dropped, every item sent has
\* been emitted.
EmittedAtLeastOnce ==
    (NoDrop(choke_stream) /\ polled = Ready(None)) =>
        \A id \in 1..(next_id - 1) : \E k \in DOMAIN output : output[k].id = id /\ ~output[k].dup

\* C11: for every ordering an item taken from upstream at instant t with a
\* sampled delay L is never emitted at a poll earlier than t + L, and it is
\* emitted exactly once.
C11_LatencyLowerBound ==
    /\ LatencyLowerBound
    /\ []EmittedAtMostOnce
    /\ []EmittedAtLeastOnce

\* Engines that drop: by loss probability, by bandwidth-drop, and by loss
\* probability with every surviving item corrupted and duplicated.
DropSettings ==
    {ChokeStream_new(o, Sampler, 50, 0, 0, None) : o \in Orderings}
    \cup {ChokeStream_new(o, None, 0, 0, 0, Some(BandwidthLimit(Limit, Window, 50, FALSE))) :
            o \in Orderings}
    \cup {ChokeStream_new("Ordered", None, 50, 100, 100, None)}

DropInit ==
    /\ choke_stream \in DropSettings
    /\ stream = Channel(<< >>, FALSE)
    /\ now = 0
    /\ next_id = 1
    /\ polled = [poll |-> "none", value |-> None]
    /\ output = << >>
    /\ InitSink
    /\ InitLimiter

DropSpec == DropInit /\ [][Next]_vars

\* The draws of an intake that drop the packet.
DropDraws(cs) == {draw \in Draws(cs) : draw.drop \/ draw.bandwidth_drop}

\* The originals and the copies among the items of a sequence.
Originals(items) == SelectSeq(items, LAMBDA item : ~item.dup)

Copies(items) == SelectSeq(items, LAMBDA item : item.dup)

\* The number of items the engine has taken from upstream, the items handed
\* over by the last upstream poll of a poll_next included.
TakenFromUpstream == (next_id - 1) - Len(stream.items)

\* C12: a dropped item (by loss probability or by bandwidth-drop) produces no
\* output and never enters the queue: the intake of a dropped packet changes
\* nothing but the dropped counter, which grows by one, and the dropped flag;
\* it makes no latency sample and no copy.  So the originals emitted or
\* queued are never more than the items taken less the items dropped (and
\* exactly as many under Ordered), and copies exist only of items that were
\* emitted or are queued.
C12_DroppedLeavesNoTrace ==
    /\ stream.items # << >> =>
          \A draw \in DropDraws(choke_stream) :
              intake_packet(choke_stream, Head(stream.items), draw, now)
                = [choke_stream EXCEPT !.dropped_packets = @ + 1, !.has_dropped_item = TRUE]
    /\ Len(Originals(output)) + Cardinality(InShaper)
          <= TakenFromUpstream - choke_stream.dropped_packets
    /\ choke_stream.ordering = "Ordered" =>
          Len(Originals(output)) + Cardinality(InShaper)
             = TakenFromUpstream - choke_stream.dropped_packets
    /\ \A copy \in {item \in Queue_items(choke_stream.queue) : item.dup} \cup Range(Copies(output)) :
          \/ \E k \in DOMAIN output : output[k].id = copy.id /\ ~output[k].dup
          \/ \E item \in InShaper : item.id = copy.id

\* The stream has ended after three items were sent; two were dropped by
\* bandwidth-drop and one came out.
C12_Witness ==
    /\ polled = Ready(None)
    /\ choke_stream.bandwidth_limit # None
    /\ choke_stream.dropped_packets = 2
    /\ choke_stream.has_dropped_item
    /\ Ids(output) = <<2>>
    /\ next_id = 4

\* Engines that duplicate every second item, over item types that do and do
\* not support duplication, with sampled delays.
DupSettings ==
    {[ChokeStream_new(o, Sampler, 0, 0, 50, None) EXCEPT !.T = T] : o \in Orderings, T \in ItemTypes}

DupInit ==
    /\ choke_stream \in DupSettings
    /\ stream = Channel(<< >>, FALSE)
    /\ now = 0
    /\ next_id = 1
    /\ polled = [poll |-> "none", value |-> None]
    /\ output = << >>
    /\ InitSink
    /\ InitLimiter

DupSpec == DupInit /\ [][Next]_vars

\* The items of the queue that are kept in a sequence: all of them in an
\* OrderedQueue, the ready ones in an UnorderedQueue.
QueueSeq(q) ==
    IF q.kind = "Unordered" THEN q.queue ELSE [k \in DOMAIN q.queue |-> q.queue[k][2]]

\* The number of copies of the item id that are queued or were emitted.
CopiesOf(id) ==
    Len(SelectSeq(output, LAMBDA item : item.dup /\ item.id = id))
      + Len(SelectSeq(QueueSeq(choke_stream.queue), LAMBDA item : item.dup /\ item.id = id))

\* A copy is queued without a deadline: in the ready queue under Unordered,
\* with no instant under Ordered.
CopyHasNoDelay(q) ==
    IF q.kind = "Unordered"
    THEN \A k \in DOMAIN q.delay_queue : ~q.delay_queue[k].dup
    ELSE \A e \in Range(q.queue) : e[2].dup => e[1] = None

\* C13: duplication produces at most one copy per original, and the copy is
\* enqueued with no delay whatever delay was sampled for the original; when
\* the item type does not support duplication no copy is produced and the
\* original is enqueued as it is without the duplication draw.
C13_AtMostOneCopy ==
    /\ \A id \in 1..MaxItems : CopiesOf(id) <= 1
    /\ CopyHasNoDelay(choke_stream.queue)
    /\ stream.items # << >> =>
          \A draw \in {d \in Draws(choke_stream) : d.duplicate} :
              LET packet == Head(stream.items)
                  after == intake_packet(choke_stream, packet, draw, now)
                  plain == intake_packet(choke_stream, packet, [draw EXCEPT !.duplicate = FALSE], now)
              IN /\ CopyHasNoDelay(after.queue)
                 /\ \E item \in Queue_items(after.queue) : item.id = packet.id /\ ~item.dup
                 /\ choke_stream.T = "TestPayload" => after = plain
                 /\ choke_stream.T = "Bytes" =>
                       /\ Len(QueueSeq(after.queue)) = Len(QueueSeq(plain.queue)) + 1
                       /\ \E item \in Range(QueueSeq(after.queue)) : item.id = packet.id /\ item.dup
    /\ choke_stream.T = "TestPayload" =>
          /\ \A item \in Queue_items(choke_stream.queue) : ~item.dup
          /\ \A k \in DOMAIN output : ~output[k].dup

\* Under Unordered the copy of item 1 was emitted before the original, which
\* was still waiting for its sampled delay.
C13_Witness ==
    /\ choke_stream.ordering = "Unordered"
    /\ Len(output) >= 2
    /\ output[1].id = 1 /\ output[1].dup
    /\ output[2].id = 1 /\ ~output[2].dup

\* An item type without duplication: the duplication draw succeeded for
\* items that came out once each.
C13_WitnessUnsupported ==
    /\ choke_stream.T = "TestPayload"
    /\ Ids(output) = <<1, 2>>

\* The step hands the consumer an item that the last upstream poll of
\* poll_next took, after the intake loop had seen upstream Pending.
TakenByTail ==
    /\ next_id' = next_id + 1
    /\ polled'.value # None
    /\ unwrap(polled'.value).id = next_id

\* The sampler calls of a step are the items the step took less the items it
\* dropped, when a sampler is configured, and none otherwise.
SamplerCalls(taken) ==
    choke_stream'.sampler_calls - choke_stream.sampler_calls
      = IF choke_stream.latency_distribution # None
        THEN taken - (choke_stream'.dropped_packets - choke_stream.dropped_packets)
        ELSE 0

\* The sampler is called once for each surviving item the intake loop takes.
SamplerOnceAtIntake ==
    [][SamplerCalls((TakenFromUpstream' - TakenFromUpstream) - (IF TakenByTail THEN 1 ELSE 0))]_vars

\* C14: the latency sampler is invoked exactly once per surviving item, in
\* the poll that takes the item from upstream: in every step the number of
\* sampler calls is the number of items taken from upstream less the number
\* dropped, so never one for a dropped item, for a copy, or for an item that
\* is put back at the front of the queue.
C14_SamplerOncePerSurvivor ==
    [][SamplerCalls(TakenFromUpstream' - TakenFromUpstream)]_vars

(***************************************************************************)
(* Live settings: an engine whose ChokeSettings came with a settings       *)
(* updater, and the holder of the sending half.                            *)
(***************************************************************************)
\* The capacity of the settings channel (mpsc::channel(1)).
SettingsChannelCapacity == 1

\* ChokeSettings::set_drop_probability and set_ordering on a default
\* ChokeSettings.
set_drop_probability(probability) == [ChokeSettings_default EXCEPT !.drop_probability = probability]

set_ordering(ordering) == [ChokeSettings_default EXCEPT !.ordering = ordering]

\* The updates the holder of the sender sends.
SettingsUpdates ==
    {set_drop_probability(Some(100)), set_ordering(Some("Unordered")), set_ordering(Some("Ordered"))}

\* ChokeStream::new with the receiver of settings_updater().
LiveUpdateSettings ==
    {[ChokeStream_new(o, Sampler, 0, 0, 0, None) EXCEPT !.settings_rx = Some(SettingsChannel(<< >>, TRUE))] :
        o \in {"Ordered", "Unordered"}}

SettingsInit ==
    /\ choke_stream \in LiveUpdateSettings
    /\ stream = Channel(<< >>, FALSE)
    /\ now = 0
    /\ next_id = 1
    /\ polled = [poll |-> "none", value |-> None]
    /\ output = << >>
    /\ InitSink
    /\ InitLimiter

\* settings_tx.send(update): completes when the channel has room.
SendSettings ==
    /\ choke_stream.settings_rx # None
    /\ unwrap(choke_stream.settings_rx).connected
    /\ Len(unwrap(choke_stream.settings_rx).updates) < SettingsChannelCapacity
    /\ \E update \in SettingsUpdates :
          choke_stream' = [choke_stream EXCEPT !.settings_rx =
                              Some([unwrap(@) EXCEPT !.updates = Append(@, update)])]
    /\ UNCHANGED <<stream, now, next_id, polled, output, sink_vars, limiter>>

\* drop(settings_tx): what was sent can still be received.
DropSettingsTx ==
    /\ choke_stream.settings_rx # None
    /\ unwrap(choke_stream.settings_rx).connected
    /\ choke_stream' = [choke_stream EXCEPT !.settings_rx = Some([unwrap(@) EXCEPT !.connected = FALSE])]
    /\ UNCHANGED <<stream, now, next_id, polled, output, sink_vars, limiter>>

SettingsNext == Send \/ DropTx \/ Tick \/ PollNext \/ SendSettings \/ DropSettingsTx

SettingsSpec == SettingsInit /\ [][SettingsNext]_vars

\* ChokeSettings::set_latency_distribution
set_latency_distribution(f) == [ChokeSettings_default EXCEPT !.latency_distribution = Some(f)]

\* The updates the owner of an engine applies by calling apply_settings.
DirectUpdates ==
    {set_drop_probability(Some(100)), set_ordering(Some("Unordered")), set_latency_distribution(None)}

\* The owner of the engine calls ChokeStream::apply_settings.
ApplySettings ==
    /\ \E update \in DirectUpdates : choke_stream' = apply_settings(choke_stream, update)
    /\ UNCHANGED <<stream, now, next_id, polled, output, sink_vars, limiter>>

MergeInit ==
    /\ choke_stream \in {ChokeStream_new(o, Sampler, 0, 0, 0, None) : o \in {"Ordered", "Unordered"}}
    /\ stream = Channel(<< >>, FALSE)
    /\ now = 0
    /\ next_id = 1
    /\ polled = [poll |-> "none", value |-> None]
    /\ output = << >>
    /\ InitSink
    /\ InitLimiter

\* Producer, consumer and a caller of apply_settings, before the clock moves.
MergeNext == Send \/ PollNext \/ ApplySettings

MergeSpec == MergeInit /\ [][MergeNext]_vars

\* Partial updates: every field absent or present, independently.
PartialUpdates ==
    [settings_rx : {None},
     latency_distribution : {None, Some(None), Some(Sampler)},
     drop_probability : {None, Some(50)},
     corrupt_probability : {None, Some(100)},
     duplicate_probability : {None, Some(100)},
     bandwidth_limit : {None, Some(None), Some(Some(BandwidthLimit(Limit, Window, 0, FALSE)))},
     ordering : {None, Some("Unordered"), Some("Backpressure")}]

\* The value of a field after a merge: the update's if present, else the old.
Merged(present, old) == IF present # None THEN unwrap(present) ELSE old

\* C15: apply_settings is a partial merge: each of latency sampler, drop,
\* corrupt and duplicate probability, bandwidth limit and ordering is
\* replaced only if the update has the field, every absent field keeps its
\* value, an update without an ordering leaves the queue as it is (one with
\* an ordering rebuilds it), and nothing else of the engine changes.
C15_PartialMerge ==
    \A update \in PartialUpdates :
        LET after == apply_settings(choke_stream, update)
        IN /\ after.latency_distribution = Merged(update.latency_distribution, choke_stream.latency_distribution)
           /\ after.drop_probability = Merged(update.drop_probability, choke_stream.drop_probability)
           /\ after.corrupt_probability = Merged(update.corrupt_probability, choke_stream.corrupt_probability)
           /\ after.duplicate_probability = Merged(update.duplicate_probability, choke_stream.duplicate_probability)
           /\ after.bandwidth_limit = Merged(update.bandwidth_limit, choke_stream.bandwidth_limit)
           /\ after.ordering = Merged(update.ordering, choke_stream.ordering)
           /\ update.ordering = None => after.queue = choke_stream.queue
           /\ update.ordering # None => after.queue = queue_for_ordering(unwrap(update.ordering))
           /\ after.settings_rx = choke_stream.settings_rx
           /\ after.dropped_packets = choke_stream.dropped_packets
           /\ after.total_packets = choke_stream.total_packets
           /\ after.has_dropped_item = choke_stream.has_dropped_item

\* An engine with a ready and a delayed item in its queue, a loss probability
\* that an earlier apply_settings set and a sampler: an update that names
\* only some fields finds values to keep in every other field and in the
\* queue.
C15_Witness ==
    /\ choke_stream.drop_probability = 100
    /\ choke_stream.latency_distribution # None
    /\ choke_stream.ordering = "Unordered"
    /\ choke_stream.queue.queue # << >>
    /\ choke_stream.queue.delay_queue # EmptyMap

\* The settings channel of the engine holds an update.
HasUpdate == choke_stream.settings_rx # None /\ unwrap(choke_stream.settings_rx).updates # << >>

NextUpdate == Head(unwrap(choke_stream.settings_rx).updates)

\* The step receives exactly one update from the settings channel.
Absorbs ==
    /\ HasUpdate
    /\ choke_stream'.settings_rx = Some([unwrap(choke_stream.settings_rx) EXCEPT !.updates = Tail(@)])

\* The step is a poll_next that did something: it returned something new,
\* took items from upstream, or changed the engine.
EngineActed ==
    \/ polled' # polled
    \/ output' # output
    \/ Len(stream'.items) < Len(stream.items)
    \/ [choke_stream' EXCEPT !.settings_rx = None] # [choke_stream EXCEPT !.settings_rx = None]

\* The settings of an engine that the updates of this specification touch.
SettingsOf(cs) ==
    <<cs.latency_distribution, cs.drop_probability, cs.corrupt_probability,
      cs.duplicate_probability, cs.ordering>>

\* The ids of the items upstream holds, and of the items queued and emitted
\* after the step.
UpstreamIds == {stream.items[k].id : k \in DOMAIN stream.items}

IdsAfter == {item.id : item \in Queue_items(choke_stream'.queue)} \cup {output'[k].id : k \in DOMAIN output'}

\* C16: live settings.  The settings channel never holds more than one
\* update.  A poll receives the update the channel holds, exactly one, and a
\* step changes the settings only by merging the update it receives.  The
\* update is applied before the intake of the same poll: when it sets the
\* loss probability to 1, every item the poll takes is dropped; when it sets
\* the ordering to Ordered, every item the poll takes is in the rebuilt queue
\* or emitted.
C16_LiveSettings ==
    /\ [](choke_stream.settings_rx # None =>
             Len(unwrap(choke_stream.settings_rx).updates) <= SettingsChannelCapacity)
    /\ [][/\ (HasUpdate /\ EngineActed) => Absorbs
          /\ Absorbs => SettingsOf(choke_stream') = SettingsOf(apply_settings(choke_stream, NextUpdate))
          /\ ~Absorbs => SettingsOf(choke_stream') = SettingsOf(choke_stream)
          /\ (Absorbs /\ NextUpdate.drop_probability = Some(100)) =>
                /\ UpstreamIds \cap IdsAfter = {}
                /\ stream'.items = << >>
                /\ choke_stream'.dropped_packets = choke_stream.dropped_packets + Len(stream.items)
          /\ (Absorbs /\ NextUpdate.ordering = Some("Ordered") /\ choke_stream.drop_probability = 0) =>
                /\ UpstreamIds \subseteq IdsAfter
                /\ stream'.items = << >>]_vars

\* The update that sets the loss probability to 1 was received while the
\* engine had emitted item 1; items 2 and 3 were dropped, nothing is queued.
C16_Witness ==
    /\ choke_stream.drop_probability = 100
    /\ ~HasUpdate
    /\ Ids(output) = <<1>>
    /\ choke_stream.dropped_packets = 2
    /\ TakenFromUpstream = 3
    /\ ~pending(choke_stream)

\* What tells one queued or emitted item from another: its number and
\* whether it is a copy.
Key(item) == <<item.id, item.dup>>

InFlight == {Key(item) : item \in Queue_items(choke_stream.queue)}

\* The step receives an update that changes the ordering.
ChangesOrdering ==
    /\ Absorbs
    /\ NextUpdate.ordering # None
    /\ unwrap(NextUpdate.ordering) # choke_stream.ordering

\* The items a poll_next can take from upstream in this step: those upstream
\* holds and the one the producer sends during the poll.
Takeable == UpstreamIds \cup {next_id}

\* C17: the ordering changes only when apply_settings merges an update that
\* names the new ordering.  A step that changes the ordering rebuilds the
\* queue for the new ordering: no item that was in flight, ready or delayed,
\* is in the new queue or emitted by the step, and the new queue holds only
\* items taken after the rebuild.  No step emits or queues an item that was
\* neither in flight before it nor taken by it, so a discarded item is never
\* emitted.
C17_OrderingChangeDiscards ==
    [][/\ choke_stream'.ordering # choke_stream.ordering =>
             ChangesOrdering /\ NextUpdate.ordering = Some(choke_stream'.ordering)
       /\ ChangesOrdering =>
             /\ choke_stream'.ordering = unwrap(NextUpdate.ordering)
             /\ choke_stream'.queue.kind = queue_for_ordering(choke_stream'.ordering).kind
             /\ \A item \in Queue_items(choke_stream'.queue) :
                   Key(item) \notin InFlight /\ item.id \in Takeable
             /\ Emits => Key(Emitted) \notin InFlight /\ Emitted.id \in Takeable
       /\ \A item \in Queue_items(choke_stream'.queue) :
             Key(item) \in InFlight \/ item.id \in Takeable
       /\ Emits => Key(Emitted) \in InFlight \/ Emitted.id \in Takeable]_vars

\* Two items were taken from upstream; none was dropped, none was emitted
\* and the queue is empty: a change of the ordering discarded them.
C17_Witness ==
    /\ TakenFromUpstream = 2
    /\ stream.items = << >>
    /\ choke_stream.dropped_packets = 0
    /\ output = << >>
    /\ ~pending(choke_stream)
    /\ Queue_items(choke_stream.queue) = {}

(***************************************************************************)
(* The BandwidthLimiter on its own: a caller that adds requests and        *)
(* updates the window with any timestamps.                                 *)
(***************************************************************************)
Weights == 0..MaxWeight

Instants == 0..MaxTime

LimiterInit ==
    /\ limiter \in {BandwidthLimiter_new(limit, Window) : limit \in 1..Limit}
    /\ choke_stream = ChokeStream_new("Ordered", None, 0, 0, 0, None)
    /\ stream = Channel(<< >>, FALSE)
    /\ now = 0
    /\ next_id = 1
    /\ polled = [poll |-> "none", value |-> None]
    /\ output = << >>
    /\ InitSink

\* limiter.add_request(weight): a request at Instant::now().
LimiterAddRequest ==
    /\ Len(limiter.requests) < MaxRequests
    /\ \E weight \in Weights : limiter' = add_request_at(limiter, weight, now)
    /\ UNCHANGED <<choke_stream, stream, now, next_id, polled, output, sink_vars>>

\* limiter.add_request_at(weight, instant)
LimiterAddRequestAt ==
    /\ Len(limiter.requests) < MaxRequests
    /\ \E weight \in Weights, instant \in Instants :
          limiter' = add_request_at(limiter, weight, instant)
    /\ UNCHANGED <<choke_stream, stream, now, next_id, polled, output, sink_vars>>

\* limiter.update_at(instant)
LimiterUpdateAt ==
    /\ \E instant \in Instants : limiter' = update_at(limiter, instant)
    /\ UNCHANGED <<choke_stream, stream, now, next_id, polled, output, sink_vars>>

LimiterNext == LimiterAddRequest \/ LimiterAddRequestAt \/ LimiterUpdateAt \/ Tick

LimiterSpec == LimiterInit /\ [][LimiterNext]_vars

\* C18: after any sequence of add_request and update calls, with any
\* timestamps, current_burden is the sum of the weights of the records the
\* limiter holds.
C18_BurdenIsSumOfWeights == limiter.current_burden = SumWeights(limiter.requests)

\* The limiter holds two records, the second added with an earlier
\* timestamp than the first.
C18_Witness ==
    /\ limiter.requests = <<<<3, 2>>, <<2, 1>>>>
    /\ limiter.current_burden = 3

\* The greatest element of a non-empty set of integers.
Max(S) == CHOOSE x \in S : \A y \in S : y <= x

\* C19: capacity_left is max(0, limit - current_burden): it is never
\* negative, also when the burden exceeds the limit; limit_reached is true
\* exactly when capacity_left is 0.
C19_CapacityLeftSaturates ==
    /\ capacity_left(limiter) = Max({0, limiter.limit - limiter.current_burden})
    /\ capacity_left(limiter) >= 0
    /\ limiter.current_burden > limiter.limit => capacity_left(limiter) = 0
    /\ limit_reached(limiter) <=> capacity_left(limiter) = 0
    /\ limit_reached(limiter) <=> limiter.current_burden >= limiter.limit

\* The burden exceeds the limit.
C19_Witness ==
    /\ limiter.current_burden > limiter.limit
    /\ limit_reached(limiter)

\* The last record of a sequence of requests.
Last(reqs) == reqs[Len(reqs)]

\* What add_request_at must leave behind: the records of before without a
\* prefix of n records that left the window, then the new record, and the
\* burden of before plus the new weight less the evicted weights.
Recorded(before, after, weight, instant, n) ==
    /\ after.requests = Append(SubSeq(before.requests, n + 1, Len(before.requests)), <<instant, weight>>)
    /\ after.current_burden = before.current_burden + weight - SumWeights(SubSeq(before.requests, 1, n))
    /\ \A k \in 1..n : before.requests[k][1] < instant - before.window

\* C20 as stated: add_request always records the request and adds its
\* weight to current_burden, also when the limit is already reached, and
\* after such a request limit_reached stays true and capacity_left stays 0.
C20_Permissive ==
    \A weight \in Weights, instant \in Instants :
        LET after == add_request_at(limiter, weight, instant)
        IN /\ Last(after.requests) = <<instant, weight>>
           /\ limit_reached(limiter) =>
                 /\ after.current_burden = limiter.current_burden + weight
                 /\ limit_reached(after)
                 /\ capacity_left(after) = 0

\* C20 amended: add_request always records the request as the last record,
\* also when the limit is already reached, and adds its weight to
\* current_burden, less the weights of the records that the request's
\* timestamp makes leave the window; when the limit is reached and no record
\* leaves the window, limit_reached stays true and capacity_left stays 0.
C20_PermissiveUpToEviction ==
    \A weight \in Weights, instant \in Instants :
        LET after == add_request_at(limiter, weight, instant)
        IN /\ \E n \in 0..Len(limiter.requests) : Recorded(limiter, after, weight, instant, n)
           /\ (limit_reached(limiter) /\ Recorded(limiter, after, weight, instant, 0)) =>
                 /\ limit_reached(after)
                 /\ capacity_left(after) = 0

\* The limit was reached when the last request was added: the burden without
\* it is at least the limit.
C20_Witness ==
    /\ Len(limiter.requests) >= 2
    /\ Last(limiter.requests)[2] > 0
    /\ limiter.current_burden - Last(limiter.requests)[2] >= limiter.limit

(***************************************************************************)
(* A burst under a bandwidth limit: items of one byte length that are all  *)
(* available upstream before the first poll, no latency, drop-ratio 0.     *)
(***************************************************************************)
\* The first n items the producer sends, all of byte length len.
RECURSIVE Burst(_, _)
Burst(n, len) == IF n = 0 THEN << >> ELSE Append(Burst(n - 1, len), NewItem(n, len))

BurstInit ==
    /\ \E o \in Orderings, limit \in 1..(MaxLen + 1) :
          choke_stream = ChokeStream_new(o, None, 0, 0, 0, Some(BandwidthLimit(limit, Window, 0, FALSE)))
    /\ \E n \in 1..MaxItems, len \in 1..MaxLen :
          /\ stream = Channel(Burst(n, len), FALSE)
          /\ next_id = MaxItems + 1
    /\ now = 0
    /\ polled = [poll |-> "none", value |-> None]
    /\ output = << >>
    /\ InitSink
    /\ InitLimiter

BurstNext == DropTx \/ Tick \/ PollNext

BurstSpec == BurstInit /\ [][BurstNext]_vars

\* The limiter of the engine.
EngineWindow == unwrap(choke_stream.bandwidth_limit).window

\* The emissions the limiter recorded in the window that ends now, and their
\* bytes.
RecentRequests ==
    SelectSeq(EngineWindow.requests, LAMBDA r : r[1] >= now - EngineWindow.window)

RecentBytes == SumWeights(RecentRequests)

\* C21: with a bandwidth limit of L bytes per window, the byte length of the
\* items emitted within one window is at most L: an item (that fits the
\* limit by itself) is emitted only if with it the bytes of the window that
\* ends now stay within the limit.
C21_WindowWithinLimit ==
    [][(Emits /\ choke_stream.bandwidth_limit # None /\ byte_len(Emitted) <= EngineWindow.limit) =>
          RecentBytes + byte_len(Emitted) <= EngineWindow.limit]_vars

\* C22: when all items have the same byte length b, are available at once
\* and the limit is b + 1 bytes per window, the engine emits one item per
\* window: no item is emitted while the window that ends now holds an
\* earlier emission.
C22_OnePerWindowAtBoundary ==
    [][(Emits /\ choke_stream.bandwidth_limit # None /\ EngineWindow.limit = byte_len(Emitted) + 1) =>
          RecentRequests = << >>]_vars

\* The burst under a consumer that keeps polling while the clock advances.
BurstLiveSpec == BurstInit /\ [][BurstNext]_vars /\ WF_vars(Tick) /\ Polling

\* Every item of the burst is at least as long as the limit.
AtLeastLimit ==
    \A item \in Range(stream.items) \cup Queue_items(choke_stream.queue) \cup Range(output) :
        byte_len(item) >= EngineWindow.limit

\* The items of the burst that were not emitted yet.
Remaining == Len(stream.items) + Cardinality(Queue_items(choke_stream.queue))

\* The clock does not stop before the window of the last emission is over.
WindowRoom ==
    \/ EngineWindow.requests = << >>
    \/ Last(EngineWindow.requests)[1] + EngineWindow.window < MaxTime

\* C23: when every item is at least as long as the limit and the items are
\* available at once with drop-ratio 0, at most one item is emitted per
\* window: an item is emitted only when the window that ends now holds no
\* earlier emission, so k emissions take more than k - 1 windows.  No item is
\* lost, and every item still waiting is eventually emitted (as long as the
\* clock runs beyond the window of the emission before it).
C23_OnePerWindowWhenLarge ==
    /\ [][(Emits /\ AtLeastLimit) => RecentRequests = << >>]_vars
    /\ [](AtLeastLimit => now >= (Len(output) - 1) * (EngineWindow.window + 1))
    /\ [][Remaining' + Len(output') = Remaining + Len(output)]_vars
    /\ \A k \in 0..(MaxItems - 1) :
          (AtLeastLimit /\ Len(output) = k /\ Remaining > 0 /\ WindowRoom) ~> (Len(output) > k)

\* Two items at least as long as the limit were emitted, the second after
\* the window of the first.
C23_Witness ==
    /\ AtLeastLimit
    /\ Ids(output) = <<1, 2>>
    /\ EngineWindow.requests # << >>
    /\ Last(EngineWindow.requests)[1] > EngineWindow.window

(***************************************************************************)
(* Settings with probabilities outside [0, 1].                             *)
(***************************************************************************)
\* Values of an f64 that are not probabilities: below 0.0 and above 1.0.
OutOfRange == {-50, 150}

\* ChokeSettings::set_corrupt_probability and set_duplicate_probability on a
\* default ChokeSettings.
set_corrupt_probability(probability) == [ChokeSettings_default EXCEPT !.corrupt_probability = probability]

set_duplicate_probability(probability) == [ChokeSettings_default EXCEPT !.duplicate_probability = probability]

\* What the builders make of any f64: the value is stored as given.
AnyProbabilities == Probabilities \cup OutOfRange

AnyProbabilityUpdates ==
    {set_drop_probability(Some(p)) : p \in AnyProbabilities}
       \cup {set_corrupt_probability(Some(p)) : p \in AnyProbabilities}
       \cup {set_duplicate_probability(Some(p)) : p \in AnyProbabilities}

\* The owner of the engine calls ChokeStream::apply_settings with settings
\* built from any f64.
ApplyAnySettings ==
    /\ \E update \in AnyProbabilityUpdates : choke_stream' = apply_settings(choke_stream, update)
    /\ UNCHANGED <<stream, now, next_id, polled, output, sink_vars, limiter>>

FaultInit ==
    /\ choke_stream \in {ChokeStream_new(o, None, 0, 0, 0, None) : o \in {"Ordered", "Unordered"}}
    /\ stream = Channel(<< >>, FALSE)
    /\ now = 0
    /\ next_id = 1
    /\ polled = [poll |-> "none", value |-> None]
    /\ output = << >>
    /\ InitSink
    /\ InitLimiter

FaultNext == Send \/ PollNext \/ ApplyAnySettings

FaultSpec == FaultInit /\ [][FaultNext]_vars

IsProbability(p) == 0 <= p /\ p <= 100

\* C24: a drop, corrupt or duplicate probability outside [0, 1] is rejected
\* at construction or when settings are applied, so the engine never holds
\* one.
C24_ProbabilitiesValidated ==
    /\ IsProbability(choke_stream.drop_probability)
    /\ IsProbability(choke_stream.corrupt_probability)
    /\ IsProbability(choke_stream.duplicate_probability)

(***************************************************************************)
(* Errors of the downstream sink.                                          *)
(***************************************************************************)
IsErr(result) == result \in {"Err", "Ready(Err)"}

\* The downstream calls of the last poll_flush or poll_close that failed.
FailedCalls ==
    IF called.op \in {"poll_flush", "poll_close"}
    THEN {i \in 1..Len(called.downstream) : IsErr(called.downstream[i][2])}
    ELSE {}

\* C25: when the downstream's poll_ready, start_send, poll_flush or
\* poll_close returns an error during the adapter's poll_flush or poll_close,
\* that call of the adapter returns the error, and the failed downstream call
\* is the last one it makes: nothing is retried, nothing is called after it.
C25_DownstreamErrorPropagated ==
    \A i \in FailedCalls : called.ret = "Ready(Err)" /\ i = Len(called.downstream)

\* A poll_close that flushed an item and got an error from start_send.
C25_Witness ==
    /\ called.op = "poll_close"
    /\ called.ret = "Ready(Err)"
    /\ called.downstream = <<<<"poll_ready", "Ready(Ok)">>, <<"start_send", "Err">>>>

(***************************************************************************)
(* Unordered ordering with strictly decreasing delays: a sampler that      *)
(* gives the item with index i a delay of MaxItems + 1 - i.                *)
(***************************************************************************)
decreasing_latency(item) == Some(MaxItems + 1 - item.id)

\* The draws of a poll under that sampler, with no drop, corruption or
\* duplication configured.
DecreasingDraws ==
    [k \in 1..Len(stream.items) |->
        [bandwidth_drop |-> FALSE, drop |-> FALSE, corrupt |-> FALSE,
         delay |-> decreasing_latency(stream.items[k]), duplicate |-> FALSE]]

ReverseInit ==
    /\ choke_stream = ChokeStream_new("Unordered", Sampler, 0, 0, 0, None)
    /\ stream = Channel(<< >>, FALSE)
    /\ now = 0
    /\ next_id = 1
    /\ polled = [poll |-> "none", value |-> None]
    /\ output = << >>
    /\ InitSink
    /\ InitLimiter

\* The consumer polls the stream.
PollDecreasing ==
    /\ \E late \in LateEvents :
         LET r == poll_next(choke_stream, stream, now, DecreasingDraws, late)
         IN /\ late.kind # "none" => r.raced
            /\ choke_stream' = r.cs
            /\ stream' = r.stream
            /\ polled' = r.ret
            /\ output' = IF r.ret.poll = "Ready" /\ r.ret.value # None
                         THEN Append(output, Delivered(unwrap(r.ret.value)))
                         ELSE output
            /\ next_id' = IF r.raced /\ late.kind = "item" THEN next_id + 1 ELSE next_id
    /\ UNCHANGED <<now, sink_vars, limiter>>

ReverseNext == Send \/ DropTx \/ Tick \/ PollDecreasing

ReverseSpec == ReverseInit /\ [][ReverseNext]_vars

\* C26 as stated: under Unordered ordering with strictly decreasing delays
\* the output is in reverse input order, whenever the items arrive and
\* whenever the stream is polled.
C26_ReverseOrder ==
    \A j, k \in DOMAIN output : j < k => output[j].id > output[k].id

\* C26: under Unordered ordering with strictly decreasing delays, the items
\* taken in at the same instant leave in reverse input order: when one of
\* them is emitted, none that was sent after it is still queued.
C26_ReverseWithinInstant ==
    [][Emits => \A q \in Queue_items(choke_stream'.queue) : q.at = Emitted.at => q.id < Emitted.id]_vars

\* Three items taken in at time 0; the third and the second have been emitted,
\* the first is still delayed.
C26_Witness ==
    /\ Ids(output) = <<3, 2>>
    /\ polled.value # None /\ unwrap(polled.value).id = 2 /\ unwrap(polled.value).at = Some(0)
    /\ \E q \in Queue_items(choke_stream.queue) : q.id = 1 /\ q.at = Some(0)

(***************************************************************************)
(* A lossy engine that never duplicates.                                   *)
(***************************************************************************)
LossySettings ==
    {ChokeStream_new(o, Sampler, d, 0, 0, None) : o \in Orderings, d \in Probabilities}

LossyInit ==
    /\ choke_stream \in LossySettings
    /\ stream = Channel(<< >>, FALSE)
    /\ now = 0
    /\ next_id = 1
    /\ polled = [poll |-> "none", value |-> None]
    /\ output = << >>
    /\ InitSink
    /\ InitLimiter

LossySpec == LossyInit /\ [][Next]_vars

\* The items the producer has sent, in the order it sent them.
Sent == 1..(next_id - 1)

\* C27: with duplicate probability 0, whatever the drop probability, every
\* emitted item is an item taken from upstream, as it was sent, and no input
\* item is emitted more than once; under Ordered ordering the output is a
\* subsequence of the input.
C27_OutputIsSubCollection ==
    choke_stream.duplicate_probability = 0 =>
       /\ \A k \in DOMAIN output :
             /\ output[k].id \in Sent \ UpstreamIds
             /\ output[k] = Delivered(NewItem(output[k].id, output[k].len))
       /\ \A j, k \in DOMAIN output : j < k => output[j].id # output[k].id
       /\ choke_stream.ordering = "Ordered" =>
             \A j, k \in DOMAIN output : j < k => output[j].id < output[k].id

\* An Ordered engine that drops half of the items: the first and the third
\* of three came out, the second was dropped.
C27_Witness ==
    /\ choke_stream.ordering = "Ordered"
    /\ choke_stream.duplicate_probability = 0
    /\ choke_stream.drop_probability = 50
    /\ choke_stream.dropped_packets = 1
    /\ Ids(output) = <<1, 3>>

(***************************************************************************)
(* The emit phase under a bandwidth limit, in the runs of BurstSpec: no    *)
(* item is delayed or dropped, so every item upstream or queued is due.    *)
(***************************************************************************)
\* The indices of the items not yet emitted, in the order they will be
\* looked at: the queue, then upstream.
Waiting == Ids(QueueSeq(choke_stream.queue)) \o Ids(stream.items)

\* The engine's limiter, updated to the time of the poll.
Updated == update_at(EngineWindow, now)

\* The front entry of the queue holds the item `id` and has no delay.
AtFrontUndelayed(q, id) ==
    /\ QueueSeq(q) # << >>
    /\ Head(QueueSeq(q)).id = id
    /\ q.kind # "Unordered" => Head(q.queue)[1] = None

\* C28: a poll that finds an item to emit first updates the limiter to its
\* time.  If the limit is not reached, the item's byte length is recorded
\* and the item is returned.  If it is reached, the item goes back to the
\* front of the queue with no delay, nothing is recorded and the poll returns
\* NotReady; the items still waiting and their order are unchanged, so the
\* same item is the next one emitted.
C28_EmitPhaseUnderLimit ==
    [][(PollNext /\ choke_stream.bandwidth_limit # None /\ Waiting # << >>) =>
          IF ~limit_reached(Updated)
          THEN /\ Emits
               /\ polled'.poll = "Ready"
               /\ Emitted.id = Head(Waiting)
               /\ Waiting' = Tail(Waiting)
               /\ EngineWindow' = add_request_at(Updated, byte_len(Emitted), now)
          ELSE /\ polled' = Pending
               /\ output' = output
               /\ EngineWindow' = Updated
               /\ Waiting' = Waiting
               /\ AtFrontUndelayed(choke_stream'.queue, Head(Waiting))]_vars

\* The first item was emitted and filled the window; the next poll was
\* throttled and left the second and the third item queued in their order.
C28_Witness ==
    /\ Ids(output) = <<1>>
    /\ polled = Pending
    /\ limit_reached(EngineWindow)
    /\ EngineWindow.requests # << >>
    /\ Ids(QueueSeq(choke_stream.queue)) = <<2, 3>>

(***************************************************************************)
(* BandwidthLimiter::deadline_duration and update_at.                      *)
(***************************************************************************)
\* BandwidthLimiter::deadline_duration.  checked_duration_since gives None
\* when the deadline is earlier than now.
deadline_duration(w, now_) ==
    IF w.requests = << >>
    THEN None
    ELSE LET deadline == Head(w.requests)[1] + w.window
         IN IF deadline >= now_ THEN Some(deadline - now_) ELSE None

\* limiter.deadline_duration(instant): the call and what it returned.
LimiterDeadlineDuration ==
    /\ \E instant \in Instants :
          called' = [op |-> "deadline_duration", ret |-> deadline_duration(limiter, instant),
                     downstream |-> <<instant>>]
    /\ UNCHANGED <<choke_stream, stream, now, next_id, polled, output, sink, pending_send,
                   closing, limiter>>

WindowNext == LimiterNext \/ LimiterDeadlineDuration

WindowSpec == LimiterInit /\ [][WindowNext]_vars

\* The records inside and outside the window that ends at `instant`.
InWindow(w, instant) == SelectSeq(w.requests, LAMBDA r : r[1] >= instant - w.window)

OutOfWindow(w, instant) == SelectSeq(w.requests, LAMBDA r : r[1] < instant - w.window)

\* The records are in timestamp order.
InTimestampOrder(reqs) == \A j, k \in DOMAIN reqs : j < k => reqs[j][1] <= reqs[k][1]

Oldest(reqs) == Min({reqs[k][1] : k \in DOMAIN reqs})

\* update_at(instant) removes exactly the records older than the window and
\* subtracts their weights.
EvictsExactly(w, instant) ==
    LET after == update_at(w, instant)
    IN /\ after.requests = InWindow(w, instant)
       /\ after.current_burden = w.current_burden - SumWeights(OutOfWindow(w, instant))

\* C29 as stated: update(now) removes exactly the records with timestamp
\* < now - window, a record at now - window is kept, and subtracts their
\* weights; deadline_duration(now) is (oldest.timestamp + window) - now when
\* there are records and empty when there are none.
C29_ExactEviction ==
    \A instant \in Instants :
        /\ EvictsExactly(limiter, instant)
        /\ deadline_duration(limiter, instant)
              = IF limiter.requests = << >> THEN None
                ELSE Some(Oldest(limiter.requests) + limiter.window - instant)

\* C29 amended: when the records are in timestamp order, update(now) removes
\* exactly the records with timestamp < now - window, keeps a record at
\* now - window, and subtracts the removed weights; deadline_duration(now)
\* is (oldest.timestamp + window) - now when there are records and that
\* instant is not before now, and empty when it is before now or there are no
\* records.
C29_ExactEvictionInOrder ==
    \A instant \in Instants :
        InTimestampOrder(limiter.requests) =>
           /\ EvictsExactly(limiter, instant)
           /\ deadline_duration(limiter, instant)
                 = IF limiter.requests # << >> /\ Oldest(limiter.requests) + limiter.window >= instant
                   THEN Some(Oldest(limiter.requests) + limiter.window - instant)
                   ELSE None

\* Two records in timestamp order: an update at the end of the first
\* record's window keeps it, an update one instant later removes it alone;
\* the last deadline_duration call returned a duration.
C29_Witness ==
    /\ Len(limiter.requests) = 2
    /\ limiter.requests[1][1] < limiter.requests[2][1]
    /\ limiter.requests[1][2] > 0
    /\ limiter.requests[1][1] + limiter.window + 1 \in Instants
    /\ update_at(limiter, limiter.requests[1][1] + limiter.window) = limiter
    /\ update_at(limiter, limiter.requests[1][1] + limiter.window + 1).requests = Tail(limiter.requests)
    /\ called.op = "deadline_duration"
    /\ called.ret # None

(***************************************************************************)
(* Bandwidth-drop: engines with a bandwidth limit that has a drop ratio,   *)
(* with and without the only-when-reached flag, and engines with no limit. *)
(* The drop probability is 0, so every drop is a bandwidth-drop.           *)
(***************************************************************************)
GateSettings ==
    {ChokeStream_new(o, None, 0, 0, 0, Some(BandwidthLimit(Limit, Window, ratio, flag))) :
        o \in Orderings, ratio \in {50, 100}, flag \in BOOLEAN}
    \cup {ChokeStream_new(o, None, 0, 0, 0, None) : o \in Orderings}

GateInit ==
    /\ choke_stream \in GateSettings
    /\ stream = Channel(<< >>, FALSE)
    /\ now = 0
    /\ next_id = 1
    /\ polled = [poll |-> "none", value |-> None]
    /\ output = << >>
    /\ InitSink
    /\ InitLimiter

GateSpec == GateInit /\ [][Next]_vars

\* The only-when-reached flag holds the bandwidth-drop back.
Gated ==
    /\ choke_stream.bandwidth_limit # None
    /\ unwrap(choke_stream.bandwidth_limit).only_drop_when_bandwidth_limit_reached
    /\ ~limit_reached(EngineWindow)

Ungated ==
    /\ choke_stream.bandwidth_limit # None
    /\ ~unwrap(choke_stream.bandwidth_limit).only_drop_when_bandwidth_limit_reached

\* C30: with the only-when-reached flag set, the intake drops no item by
\* bandwidth-drop while the limiter's limit is not reached; with the flag
\* clear the drop-ratio draw is made for every item, whatever the limiter
\* says, so with a drop ratio of 1 every item of the intake is dropped; with
\* no bandwidth limit there is no bandwidth-drop.
C30_BandwidthDropGating ==
    /\ [](Gated => bandwidth_drop(choke_stream) = {FALSE})
    /\ [](Ungated => bandwidth_drop(choke_stream) = Bernoulli(unwrap(choke_stream.bandwidth_limit).drop_ratio))
    /\ [](choke_stream.bandwidth_limit = None => bandwidth_drop(choke_stream) = {FALSE})
    /\ [][(Gated \/ choke_stream.bandwidth_limit = None) =>
             choke_stream'.dropped_packets = choke_stream.dropped_packets]_vars
    /\ [][(PollNext /\ Ungated /\ unwrap(choke_stream.bandwidth_limit).drop_ratio = 100 /\ intake_runs(choke_stream)) =>
             choke_stream'.dropped_packets = choke_stream.dropped_packets + Len(stream.items)]_vars

\* The flag is set and the drop ratio is 1: the first two items passed and
\* filled the window, the third was dropped at intake.
C30_Witness ==
    /\ choke_stream.bandwidth_limit # None
    /\ unwrap(choke_stream.bandwidth_limit).only_drop_when_bandwidth_limit_reached
    /\ unwrap(choke_stream.bandwidth_limit).drop_ratio = 100
    /\ limit_reached(EngineWindow)
    /\ Ids(output) = <<1, 2>>
    /\ choke_stream.dropped_packets = 1

(***************************************************************************)
(* The dropped flag of the engine inside a ChokeSink.                      *)
(***************************************************************************)
\* The last call of the adapter was a poll_flush that completed.
FlushCompleted == called.op = "poll_flush" /\ called.ret = "Ready(Ok)"

\* C31: a flush that finds the engine NotReady with the dropped flag set
\* clears the flag and returns Ready for the dropped item; after a flush has
\* completed the dropped flag is false.
C31_FlushClearsDroppedFlag == FlushCompleted => ~choke_stream.has_dropped_item

(***************************************************************************)
(* The wake timer.  One unit of the clock stands for 20 ms.                *)
(***************************************************************************)
\* interval(Duration::from_millis(20)), in units of the clock.
TimerFallback == 1

\* The period of the interval the end of poll_next arms when the queue is
\* pending: the time to the queue's deadline when that is after now, and
\* 20 ms otherwise.
timer_interval(cs, now_) ==
    LET deadline == Queue_deadline(cs.queue)
    IN IF deadline # None /\ unwrap(deadline) > now_
       THEN unwrap(deadline) - now_
       ELSE TimerFallback

\* Engines with a latency sampler, with and without a bandwidth limit.
WakeSettings ==
    {ChokeStream_new(o, Sampler, 0, 0, 0, None) : o \in Orderings}
    \cup {ChokeStream_new(o, Sampler, 0, 0, 0, Some(BandwidthLimit(1, Window, 0, FALSE))) :
            o \in Orderings}

WakeInit ==
    /\ choke_stream \in WakeSettings
    /\ stream = Channel(<< >>, FALSE)
    /\ now = 0
    /\ next_id = 1
    /\ polled = [poll |-> "none", value |-> None]
    /\ output = << >>
    /\ InitSink
    /\ InitLimiter

\* The consumer polls the stream; `called` records the timer the poll armed
\* and when, if it armed one.
PollArming ==
    /\ \E draws \in [1..Len(stream.items) -> Draws(settings_absorb(choke_stream))], late \in LateEvents :
         LET r == poll_next(choke_stream, stream, now, draws, late)
         IN /\ late.kind # "none" => r.raced
            /\ choke_stream' = r.cs
            /\ stream' = r.stream
            /\ polled' = r.ret
            /\ output' = IF r.ret.poll = "Ready" /\ r.ret.value # None
                         THEN Append(output, Delivered(unwrap(r.ret.value)))
                         ELSE output
            /\ next_id' = IF r.raced /\ late.kind = "item" THEN next_id + 1 ELSE next_id
            /\ called' = IF r.ret = Pending /\ pending(r.cs)
                         THEN [op |-> "timer", ret |-> timer_interval(r.cs, now), downstream |-> <<now>>]
                         ELSE NoCall
    /\ UNCHANGED <<now, sink, pending_send, closing, limiter>>

WakeNext == Send \/ DropTx \/ Tick \/ PollArming

WakeSpec == WakeInit /\ [][WakeNext]_vars

\* The times a wake is due after the instant t: the time to the queue's next
\* deadline, and the time until the oldest record of the bandwidth limiter
\* leaves the window.
WakeCandidates(cs, t) ==
    (IF Queue_deadline(cs.queue) # None /\ unwrap(Queue_deadline(cs.queue)) > t
     THEN {unwrap(Queue_deadline(cs.queue)) - t} ELSE {})
    \cup
    (IF cs.bandwidth_limit # None /\ deadline_duration(unwrap(cs.bandwidth_limit).window, t) # None
     THEN {unwrap(deadline_duration(unwrap(cs.bandwidth_limit).window, t))} ELSE {})

\* C32: whenever the engine returns NotReady with a non-empty queue it has
\* armed a wake timer for the minimum of the queue's next deadline and the
\* instant the bandwidth limiter frees capacity, and for 20 ms when neither
\* exists.
C32_WakeAtEarliest ==
    (polled = Pending /\ pending(choke_stream)) =>
       /\ called.op = "timer"
       /\ called.ret = IF WakeCandidates(choke_stream, called.downstream[1]) = {}
                       THEN TimerFallback
                       ELSE Min(WakeCandidates(choke_stream, called.downstream[1]))

(***************************************************************************)
(* UnorderedQueue::expire at the boundary.                                 *)
(***************************************************************************)
\* The deadlines of the delayed entries of q that are not after the instant t.
DueAt(q, t) == {k \in DOMAIN q.delay_queue : k <= t}

\* C33: UnorderedQueue.expire(now) moves every delayed entry whose deadline
\* is <= now, a deadline equal to now included, to the tail of the ready
\* queue in ascending deadline order, and leaves the entries with a deadline
\* after now in the delay structure.
C33_ExpireUpToNow ==
    choke_stream.queue.kind = "Unordered" =>
       LET q == choke_stream.queue
           after == UnorderedQueue_expire(q, now)
           due == Ascending(DueAt(q, now))
       IN /\ after.queue = q.queue \o [i \in 1..Len(due) |-> q.delay_queue[due[i]]]
          /\ DOMAIN after.delay_queue = (DOMAIN q.delay_queue) \ DueAt(q, now)
          /\ \A k \in DOMAIN after.delay_queue : after.delay_queue[k] = q.delay_queue[k]

(***************************************************************************)
(* The settings channel when it is empty or disconnected.                  *)
(***************************************************************************)
\* The sender of the settings channel was dropped.
Disconnected == choke_stream.settings_rx # None /\ ~unwrap(choke_stream.settings_rx).connected

\* C34 as stated: when the sender of the settings channel is disconnected,
\* a poll applies no settings change.
C34_DisconnectedAppliesNothing ==
    [][Disconnected => SettingsOf(choke_stream') = SettingsOf(choke_stream)]_vars

\* C34 amended: when no update is waiting, with the sender connected or not,
\* the absorb step of a poll changes nothing, the settings and the kind of
\* the queue stay as they are, and the engine keeps shaping with the last
\* applied settings: with a loss probability of 1 it drops every item it
\* takes.  An update sent before the sender was dropped is still received
\* and applied by the next poll.
C34_NoUpdateAppliesNothing ==
    /\ [](~HasUpdate => settings_absorb(choke_stream) = choke_stream)
    /\ [][~HasUpdate =>
             /\ SettingsOf(choke_stream') = SettingsOf(choke_stream)
             /\ choke_stream'.queue.kind = choke_stream.queue.kind
             /\ (choke_stream.drop_probability = 100 /\ Len(stream'.items) < Len(stream.items)) =>
                   /\ stream'.items = << >>
                   /\ choke_stream'.dropped_packets = choke_stream.dropped_packets + Len(stream.items)]_vars
    /\ [][(Disconnected /\ HasUpdate /\ EngineActed) =>
             /\ Absorbs
             /\ SettingsOf(choke_stream') = SettingsOf(apply_settings(choke_stream, NextUpdate))]_vars

\* The update that sets the loss probability to 1 was applied after item 1
\* had come out, the sender is gone, no update is waiting, and items 2 and 3
\* were dropped.
C34_Witness ==
    /\ Disconnected
    /\ ~HasUpdate
    /\ choke_stream.drop_probability = 100
    /\ choke_stream.dropped_packets = 2
    /\ Ids(output) = <<1>>

(***************************************************************************)
(* Conservation of items.                                                  *)
(***************************************************************************)
\* The copies the engine holds or has emitted.  A copy is queued without a
\* delay, so it leaves the queue only by being emitted.
CopiesCreated ==
    Len(Copies(output)) + Len(SelectSeq(QueueSeq(choke_stream.queue), LAMBDA item : item.dup))

\* The items in the queue, ready or delayed.
Queued == Cardinality(Queue_items(choke_stream.queue))

\* C35: with no ordering change applied, the items taken from upstream plus
\* the duplicates created are the items emitted plus the items dropped plus
\* the items in the queue; two items with the same release deadline are both
\* kept.
C35_Conservation ==
    TakenFromUpstream + CopiesCreated = Len(output) + choke_stream.dropped_packets + Queued

(***************************************************************************)
(* Items that reach the output.                                            *)
(***************************************************************************)
\* The emitted item was taken in by the intake loop of some poll.
PassedIntake == Emitted.at # None

\* The emit phase recorded the emitted item in the bandwidth limiter.
Accounted ==
    choke_stream'.bandwidth_limit # None =>
       LET w == unwrap(choke_stream'.bandwidth_limit).window
       IN w.requests # << >> /\ Last(w.requests) = <<now, byte_len(Emitted)>>

\* C36: every item returned by poll_next has passed through the intake of
\* some poll and through the bandwidth accounting of the emit phase, however
\* the producer interleaves with the poll.
C36_EveryItemShaped == [][Emits => (PassedIntake /\ Accounted)]_vars

(***************************************************************************)
(* Settings updates that name the ordering in effect.                      *)
(***************************************************************************)
\* C37: an apply_settings whose update leaves the ordering as it is, because
\* it names no ordering or the ordering already in effect, leaves the items
\* in the queue unchanged.
C37_SameOrderingKeepsQueue ==
    [][(ApplySettings /\ choke_stream'.ordering = choke_stream.ordering) =>
          choke_stream'.queue = choke_stream.queue]_vars

(***************************************************************************)
(* Items the engine releases while the downstream is not ready.            *)
(***************************************************************************)
\* The ids of the items a ChokeSink holds or has handed over: in its internal
\* channel, in the engine's queue, or received by the downstream.
Held ==
    UpstreamIds
    \cup {item.id : item \in Queue_items(choke_stream.queue)}
    \cup {sink.received[k].id : k \in DOMAIN sink.received}

\* The call flushed, the engine released an item, and the downstream's
\* poll_ready did not answer Ready(Ok).
RefusedHandOff ==
    /\ called'.op \in {"poll_flush", "poll_close"}
    /\ called'.downstream # << >>
    /\ called'.downstream[1][1] = "poll_ready"
    /\ called'.downstream[1][2] # "Ready(Ok)"

\* C38: when a flush gets an item out of the engine and the downstream's
\* poll_ready is Pending or an error, the adapter keeps the item, for a later
\* flush to hand it over.
C38_RefusedItemRetained ==
    [][(RefusedHandOff /\ choke_stream.drop_probability = 0) => Held \subseteq Held']_vars

(***************************************************************************)
(* Items in the internal channel of a ChokeSink when it is closed.         *)
(***************************************************************************)
\* C39: the downstream is closed only after the items start_send has put
\* into the internal channel have been taken in by the engine: none is left
\* in the channel once the downstream's poll_close has completed.
C39_CloseDrainsChannel == sink.closed => stream.items = << >>

(***************************************************************************)
(* Where a copy comes out relative to its original.                        *)
(***************************************************************************)
\* Every copy in the output comes directly after its original.
DirectlyAfterOriginal ==
    \A k \in DOMAIN output :
        output[k].dup => /\ k > 1
                         /\ output[k - 1].id = output[k].id
                         /\ ~output[k - 1].dup

\* The item a was taken from the input before the item b: an earlier item
\* before a later one, an original before its copy.
InputBefore(a, b) == a.id < b.id \/ (a.id = b.id /\ ~a.dup /\ b.dup)

\* The emitted item had no sampled delay, and every item without a sampled
\* delay that is still queued came after it in the input.
UndelayedInInputOrder ==
    Emitted.delay = None =>
       \A q \in Queue_items(choke_stream'.queue) : q.delay = None => InputBefore(Emitted, q)

\* C40: under Ordered a copy is emitted directly after its original and never
\* before it; under Unordered the items with no sampled delay, copies
\* included, are emitted in their input order.
C40_DuplicatePosition ==
    /\ [](choke_stream.ordering = "Ordered" => DirectlyAfterOriginal)
    /\ [][(Emits /\ choke_stream.ordering = "Unordered") => UndelayedInInputOrder]_vars

\* Under Unordered item 1 was delayed and duplicated and item 2 was not
\* delayed: the copy of item 1 came out first, then item 2, then item 1.
C40_Witness ==
    /\ choke_stream.ordering = "Unordered"
    /\ Ids(output) = <<1, 2, 1>>
    /\ output[1].dup
    /\ ~output[2].dup
    /\ ~output[3].dup

=============================================================================
